---------------------------- MODULE Spec2Model ----------------------------
(***************************************************************************)
(* Model of the coverage tools (coverage_start / coverage_stop), the       *)
(* coverage classifier and the session state they share with               *)
(* suggest_code_splits.                                                    *)
(*                                                                         *)
(* JavaScript runs one handler at a time until it reaches an await, so an  *)
(* action of this model is the code of a handler between two awaits.       *)
(* Several handler invocations may be suspended at their awaits at once.   *)
(***************************************************************************)
EXTENDS Integers, Sequences, FiniteSets, TLC

(***************************************************************************)
(* Bounds of the model.                                                    *)
(***************************************************************************)
\* number of tool invocations in one behaviour
MaxCalls == 4
\* largest source length and range bound of a record of the classifier spec
MaxLen == 3
\* most ranges in a record of the classifier spec
MaxRanges == 2

\* pageSize: zod.number().int().positive().max(5)
MaxPageSize == 5

Null == "null"

\* an absent value (null, undefined) and a present one
None == <<>>
Some(x) == <<x>>

Types == {"JS", "CSS"}

(***************************************************************************)
(* URLs.  A URL is what `new URL(url)` and the string tests of             *)
(* isThirdParty can tell about it: its kind ("data"/"blob" prefixes, a     *)
(* string that does not parse, or a parsed http URL), its origin, and      *)
(* whether its lower-cased path includes one of thirdPartyPatterns.        *)
(***************************************************************************)
Url(name, kind, origin, vendorPath) ==
    [name |-> name, kind |-> kind, origin |-> origin, vendorPath |-> vendorPath]

PageUrl == Url("page", "http", "site", FALSE)

isThirdParty(url, pageUrl) ==
    IF url.kind \in {"data", "blob"} THEN FALSE
    ELSE IF url.kind = "malformed" \/ pageUrl.kind = "malformed" THEN FALSE
    ELSE IF url.origin # pageUrl.origin THEN TRUE
    ELSE url.vendorPath

(***************************************************************************)
(* Coverage classifier.  A raw record is [url, hasText, text, ranges]: text *)
(* is the length of the source text, hasText is FALSE for a record without *)
(* text (`entry.text.length` throws), ranges a sequence of [start, end].   *)
(* usagePercent is the quotient (usedBytes / totalBytes) * 100, kept as    *)
(* the exact fraction num/den.                                             *)
(***************************************************************************)
RECURSIVE SumRanges(_)
SumRanges(ranges) ==
    IF ranges = <<>> THEN 0
    ELSE (Head(ranges).end - Head(ranges).start) + SumRanges(Tail(ranges))

\* the loop with `usedBytes += range.end` (the start of each range forgotten)
UsedBytesMissingStart(ranges) ==
    SumRanges([k \in DOMAIN ranges |-> [start |-> 0, end |-> ranges[k].end]])

\* the loop `for (const range of entry.ranges) usedBytes += range.end - range.start`
UsedBytes(ranges) == SumRanges(ranges)

UsagePercent(usedBytes, totalBytes) ==
    IF totalBytes > 0 THEN [num |-> usedBytes * 100, den |-> totalBytes]
    ELSE [num |-> 0, den |-> 1]

calculateCoverageThrows(entry) == ~entry.hasText

calculateCoverageEntry(entry, pageUrl) ==
    LET totalBytes == entry.text
        usedBytes == UsedBytes(entry.ranges)
    IN [url |-> entry.url,
        totalBytes |-> totalBytes,
        usedBytes |-> usedBytes,
        unusedBytes |-> totalBytes - usedBytes,
        usagePercent |-> UsagePercent(usedBytes, totalBytes),
        isExternal |-> isThirdParty(entry.url, pageUrl)]

(***************************************************************************)
(* Report builder.                                                         *)
(***************************************************************************)
\* the comparator reversed: a.unusedBytes - b.unusedBytes
ByUnusedAsc(a, b) == a.unusedBytes - b.unusedBytes

\* the comparator (a, b) => b.unusedBytes - a.unusedBytes
ByUnusedDesc(a, b) == b.unusedBytes - a.unusedBytes

RECURSIVE InsertByUnused(_, _)
\* position of e in a list already sorted with the comparator: after every
\* element the comparator does not put behind it (Array.prototype.sort is
\* stable)
InsertByUnused(e, sorted) ==
    IF sorted = <<>> THEN <<e>>
    ELSE IF ByUnusedDesc(Head(sorted), e) <= 0
         THEN <<Head(sorted)>> \o InsertByUnused(e, Tail(sorted))
         ELSE <<e>> \o sorted

RECURSIVE SortByUnusedDesc(_)
SortByUnusedDesc(list) ==
    IF list = <<>> THEN <<>>
    ELSE InsertByUnused(list[Len(list)],
                        SortByUnusedDesc(SubSeq(list, 1, Len(list) - 1)))

RECURSIVE SumField(_, _)
SumField(list, f) ==
    IF list = <<>> THEN 0 ELSE Head(list)[f] + SumField(Tail(list), f)

Min(a, b) == IF a < b THEN a ELSE b
Max(a, b) == IF a > b THEN a ELSE b
CeilDiv(a, b) == (a + b - 1) \div b

\* utils/pagination.js: the window of page pageIdx, an out-of-range page
\* index clamped to the last page; startIndex is 0-based, endIndex exclusive
paginate(items, pagination) ==
    LET total == Len(items)
        totalPages == Max(1, CeilDiv(total, pagination.pageSize))
        currentPage == Min(pagination.pageIdx, totalPages - 1)
        pageStart == currentPage * pagination.pageSize
        pageEnd == Min(total, pageStart + pagination.pageSize)
    IN [items |-> SubSeq(items, pageStart + 1, pageEnd),
        startIndex |-> pageStart,
        endIndex |-> pageEnd,
        currentPage |-> currentPage,
        totalPages |-> totalPages,
        hasNextPage |-> currentPage < totalPages - 1,
        hasPreviousPage |-> currentPage > 0]

\* the first number of the showing line printed without the + 1
ShowingFromZeroBased(page) == page.startIndex

\* `Showing ${startIndex + 1}-${endIndex} of ${length}`: the first number
ShowingFrom(page) == page.startIndex + 1

PaginationInfo(all, page) ==
    IF Len(all) > 0
    THEN Some([showingFrom |-> ShowingFrom(page),
               showingTo |-> page.endIndex,
               showingOf |-> Len(all),
               currentPage |-> page.currentPage,
               totalPages |-> page.totalPages,
               hasNextPage |-> page.hasNextPage,
               hasPreviousPage |-> page.hasPreviousPage])
    ELSE None

\* the summary taken over the entries of the requested page only
SummaryOfPage(jsCoverage, cssCoverage, pagination) ==
    paginate(jsCoverage, pagination).items
        \o paginate(cssCoverage, pagination).items

\* allEntries = [...jsCoverage, ...cssCoverage], taken before pagination
SummaryEntries(jsCoverage, cssCoverage, pagination) ==
    jsCoverage \o cssCoverage

\* the report of stopCoverageAndAppendOutput from the classified entries
BuildReport(jsEntries, cssEntries, pagination) ==
    LET jsCoverage == SortByUnusedDesc(jsEntries)
        cssCoverage == SortByUnusedDesc(cssEntries)
        allEntries == SummaryEntries(jsCoverage, cssCoverage, pagination)
        totalBytes == SumField(allEntries, "totalBytes")
        usedBytes == SumField(allEntries, "usedBytes")
        jsPaginationResult == paginate(jsCoverage, pagination)
        cssPaginationResult == paginate(cssCoverage, pagination)
    IN [jsCoverage |-> jsPaginationResult.items,
        cssCoverage |-> cssPaginationResult.items,
        summary |-> [totalResources |-> Len(allEntries),
                     totalBytes |-> totalBytes,
                     usedBytes |-> usedBytes,
                     unusedBytes |-> SumField(allEntries, "unusedBytes"),
                     overallUsagePercent |-> UsagePercent(usedBytes, totalBytes)],
        jsPagination |-> PaginationInfo(jsCoverage, jsPaginationResult),
        cssPagination |-> PaginationInfo(cssCoverage, cssPaginationResult)]

(***************************************************************************)
(* Session state, the coverage provider and the handler invocations.       *)
(***************************************************************************)
VARIABLES
    running,            \* context.isRunningCoverage()
    coverageOptions,    \* context.getCoverageOptions()
    lastCoverageReport, \* context.getLastCoverageReport(), None when absent
    active,             \* provider: the types whose instrumentation is on
    calls,              \* the handler invocations: position and locals
    invoked,            \* number of handlers invoked so far
    response,           \* what the handler that returned last told its caller
    acceptedSinceStop,  \* coverage_start calls accepted since the last
                        \* accepted coverage_stop returned
    input,              \* classifier spec: the raw record
    output              \* classifier spec: the derived entry

vars == <<running, coverageOptions, lastCoverageReport, active, calls,
          invoked, response, acceptedSinceStop, input, output>>

sessionVars == <<running, coverageOptions, lastCoverageReport, active, calls,
                 invoked, response, acceptedSinceStop>>

CallIds == 1..MaxCalls

\* a handler not yet invoked / one that has returned
NewCall == [pc |-> "new", tool |-> Null, includeJS |-> FALSE,
            includeCSS |-> FALSE, pageSize |-> 0, pageIdx |-> 0,
            jsCoverage |-> <<>>, log |-> <<>>]
DoneCall == [NewCall EXCEPT !.pc = "done"]

NoResponse == [tool |-> Null, outcome |-> Null, report |-> None,
               log |-> <<>>, includeJS |-> FALSE, includeCSS |-> FALSE]

Respond(i, tool, outcome, report, log, includeJS, includeCSS) ==
    [tool |-> tool, outcome |-> outcome, report |-> report,
     log |-> log, includeJS |-> includeJS, includeCSS |-> includeCSS]

\* records the provider returns in the session specification
RecA == [url |-> Url("a", "http", "site", FALSE), hasText |-> TRUE,
         text |-> 4, ranges |-> <<[start |-> 0, end |-> 1]>>]
RecB == [url |-> Url("b", "http", "cdn", FALSE), hasText |-> TRUE,
         text |-> 2, ranges |-> <<>>]
RecNoText == [url |-> Url("c", "http", "site", TRUE), hasText |-> FALSE,
              text |-> 0, ranges |-> <<>>]

SeqsUpTo(S, n) == UNION {[1..k -> S] : k \in 0..n}

\* the lists of records a provider stop call returns in the session
\* specification, and the pagination parameters its callers pass
ProviderResults == {<<>>, <<RecB, RecA>>, <<RecA, RecNoText>>}
PageSizes == {1, MaxPageSize}
PageIdxs == {0}

\* what a provider stop call settles with
Resolved(records) == [ok |-> TRUE, records |-> records]
Throws == [ok |-> FALSE, records |-> <<>>]
StopOutcomes == {Resolved(r) : r \in ProviderResults} \cup {Throws}

InitSession ==
    /\ running = FALSE
    /\ coverageOptions = [includeJS |-> TRUE, includeCSS |-> TRUE]
    /\ lastCoverageReport = None
    /\ active = [t \in Types |-> FALSE]
    /\ calls = [i \in CallIds |-> NewCall]
    /\ invoked = 0
    /\ response = NoResponse
    /\ acceptedSinceStop = 0

Init ==
    /\ InitSession
    /\ input = None
    /\ output = None

\* a handler is invoked: the next unused invocation starts running
Invoke(i) == i = invoked + 1 /\ invoked' = i

\* the handler returns
Return(i, resp) ==
    /\ calls' = [calls EXCEPT ![i] = DoneCall]
    /\ response' = resp

(***************************************************************************)
(* coverage_start                                                          *)
(***************************************************************************)
StartAlwaysAccepts == FALSE
\* `if (context.isRunningCoverage())`
StartAlreadyRunning == running

StartNoneIncludedIgnored(includeJS, includeCSS) == FALSE
\* `if (!includeJS && !includeCSS)`
StartNoneIncluded(includeJS, includeCSS) == ~includeJS /\ ~includeCSS

\* the provider calls pushed into `promises`
StartProviderCalls(includeJS, includeCSS) ==
    (IF includeJS THEN <<"startJSCoverage">> ELSE <<>>)
    \o (IF includeCSS THEN <<"startCSSCoverage">> ELSE <<>>)

\* `context.setIsRunningCoverage(true)` before the provider is called
StartAcceptedRunning == TRUE

StartCatchKeepsRunning == running
\* `context.setIsRunningCoverage(false)` of the catch block
StartCatchRunning == FALSE

\* the handler up to `await Promise.all(promises)`
StartCoverage(i, includeJS, includeCSS) ==
    /\ Invoke(i)
    /\ IF StartAlreadyRunning
       THEN /\ Return(i, Respond(i, "coverage_start", "alreadyRunning", None,
                                 <<>>, includeJS, includeCSS))
            /\ UNCHANGED <<running, coverageOptions, acceptedSinceStop>>
       ELSE IF StartNoneIncluded(includeJS, includeCSS)
       THEN /\ Return(i, Respond(i, "coverage_start", "noneIncluded", None,
                                 <<>>, includeJS, includeCSS))
            /\ UNCHANGED <<running, coverageOptions, acceptedSinceStop>>
       ELSE /\ running' = StartAcceptedRunning
            /\ coverageOptions' = [includeJS |-> includeJS,
                                   includeCSS |-> includeCSS]
            /\ calls' = [calls EXCEPT ![i] =
                   [NewCall EXCEPT !.pc = "awaitStart",
                                   !.tool = "coverage_start",
                                   !.includeJS = includeJS,
                                   !.includeCSS = includeCSS,
                                   !.log = StartProviderCalls(includeJS,
                                                              includeCSS)]]
            /\ acceptedSinceStop' = acceptedSinceStop + 1
            /\ UNCHANGED response
    /\ UNCHANGED <<lastCoverageReport, active, input, output>>

\* Promise.all settles: jsOk and cssOk tell whether each provider start that
\* was called resolved; a provider start that resolves turns its
\* instrumentation on
StartSettled(i, jsOk, cssOk) ==
    LET c == calls[i] IN
    /\ c.pc = "awaitStart"
    /\ ~c.includeJS => jsOk
    /\ ~c.includeCSS => cssOk
    /\ active' = [t \in Types |->
                    IF t = "JS" THEN active[t] \/ (c.includeJS /\ jsOk)
                    ELSE active[t] \/ (c.includeCSS /\ cssOk)]
    /\ IF jsOk /\ cssOk
       THEN /\ Return(i, Respond(i, "coverage_start", "started", None, c.log,
                                 c.includeJS, c.includeCSS))
            /\ UNCHANGED running
       ELSE /\ running' = StartCatchRunning
            /\ Return(i, Respond(i, "coverage_start", "startError", None,
                                 c.log, c.includeJS, c.includeCSS))
    /\ UNCHANGED <<coverageOptions, lastCoverageReport, invoked,
                   acceptedSinceStop, input, output>>

(***************************************************************************)
(* coverage_stop                                                           *)
(***************************************************************************)
StopNeverRejects == FALSE
\* `if (!context.isRunningCoverage())`
StopNotRunning == ~running

StopRunningOnlyOnSuccess(failed) == IF failed THEN running ELSE FALSE
\* `finally { context.setIsRunningCoverage(false); }`: the flag after the
\* try block, whether it completed (failed = FALSE) or threw
StopFinallyRunning(failed) == FALSE

\* the try block completed: the report is formatted and appended to the
\* response; the session's last coverage report is not written
StopSucceeded(i, c, jsEntries, cssEntries) ==
    /\ Return(i, Respond(i, "coverage_stop", "report",
                         Some(BuildReport(jsEntries, cssEntries,
                                          [pageSize |-> c.pageSize,
                                           pageIdx |-> c.pageIdx])),
                         c.log, c.includeJS, c.includeCSS))
    /\ running' = StopFinallyRunning(FALSE)
    /\ acceptedSinceStop' = 0
    /\ UNCHANGED lastCoverageReport

StopCatchPartialReport(c) ==
    Some(BuildReport(c.jsCoverage, <<>>,
                     [pageSize |-> c.pageSize, pageIdx |-> c.pageIdx]))
\* the report section the catch block appends: none
StopCatchReport(c) == None

\* the catch block: only the error text is appended to the response
StopFailed(i, c) ==
    /\ Return(i, Respond(i, "coverage_stop", "stopError", StopCatchReport(c),
                         c.log, c.includeJS, c.includeCSS))
    /\ running' = StopFinallyRunning(TRUE)
    /\ acceptedSinceStop' = 0
    /\ UNCHANGED lastCoverageReport

\* `if (options.includeCSS)` before `page.coverage.stopCSSCoverage()`
StopCallsCSS(options) == options.includeCSS

\* the handler and stopCoverageAndAppendOutput up to its first await
StopCoverage(i, pageSize, pageIdx) ==
    /\ Invoke(i)
    /\ IF StopNotRunning
       THEN /\ Return(i, Respond(i, "coverage_stop", "notRunning", None, <<>>,
                                 FALSE, FALSE))
            /\ UNCHANGED <<running, acceptedSinceStop,
                           lastCoverageReport>>
       ELSE LET options == coverageOptions
                c == [NewCall EXCEPT !.tool = "coverage_stop",
                                     !.includeJS = options.includeJS,
                                     !.includeCSS = options.includeCSS,
                                     !.pageSize = pageSize,
                                     !.pageIdx = pageIdx]
            IN IF options.includeJS
               THEN /\ calls' = [calls EXCEPT ![i] =
                          [c EXCEPT !.pc = "awaitStopJS",
                                    !.log = <<"stopJSCoverage">>]]
                    /\ UNCHANGED <<running, acceptedSinceStop,
                                   lastCoverageReport, response>>
               ELSE IF StopCallsCSS(options)
               THEN /\ calls' = [calls EXCEPT ![i] =
                          [c EXCEPT !.pc = "awaitStopCSS",
                                    !.log = <<"stopCSSCoverage">>]]
                    /\ UNCHANGED <<running, acceptedSinceStop,
                                   lastCoverageReport, response>>
               ELSE StopSucceeded(i, c, <<>>, <<>>)
    /\ UNCHANGED <<coverageOptions, active, input, output>>

Classify(records) ==
    [k \in DOMAIN records |-> calculateCoverageEntry(records[k], PageUrl)]

ClassifyThrows(records) ==
    \E k \in DOMAIN records : calculateCoverageThrows(records[k])

\* `await page.coverage.stopJSCoverage()` settles: it throws, or it returns
\* the records, which are classified
StopJSSettled(i, result) ==
    LET c == calls[i] IN
    /\ c.pc = "awaitStopJS"
    /\ IF ~result.ok
       THEN /\ StopFailed(i, c)
            /\ UNCHANGED active
       ELSE /\ active' = [active EXCEPT !["JS"] = FALSE]
            /\ IF ClassifyThrows(result.records)
               THEN StopFailed(i, c)
               ELSE IF StopCallsCSS(c)
               THEN /\ calls' = [calls EXCEPT ![i] =
                          [c EXCEPT !.pc = "awaitStopCSS",
                                    !.jsCoverage = Classify(result.records),
                                    !.log = Append(c.log, "stopCSSCoverage")]]
                    /\ UNCHANGED <<running, acceptedSinceStop,
                                   lastCoverageReport, response>>
               ELSE StopSucceeded(i, c, Classify(result.records), <<>>)
    /\ UNCHANGED <<coverageOptions, invoked, input, output>>

\* `await page.coverage.stopCSSCoverage()` settles
StopCSSSettled(i, result) ==
    LET c == calls[i] IN
    /\ c.pc = "awaitStopCSS"
    /\ IF ~result.ok
       THEN /\ StopFailed(i, c)
            /\ UNCHANGED active
       ELSE /\ active' = [active EXCEPT !["CSS"] = FALSE]
            /\ IF ClassifyThrows(result.records)
               THEN StopFailed(i, c)
               ELSE StopSucceeded(i, c, c.jsCoverage, Classify(result.records))
    /\ UNCHANGED <<coverageOptions, invoked, input, output>>

(***************************************************************************)
(* suggest_code_splits: the check of the last coverage report              *)
(***************************************************************************)
SuggestCodeSplits(i) ==
    /\ Invoke(i)
    /\ Return(i, Respond(i, "suggest_code_splits",
                         IF lastCoverageReport = None THEN "noCoverageData"
                         ELSE IF Len(lastCoverageReport[1].jsCoverage) = 0
                              THEN "noJSCoverage"
                              ELSE "suggestions",
                         None, <<>>, FALSE, FALSE))
    /\ UNCHANGED <<running, coverageOptions, lastCoverageReport, active,
                   acceptedSinceStop, input, output>>

Next ==
    \E i \in CallIds :
        \/ \E includeJS \in BOOLEAN, includeCSS \in BOOLEAN :
               StartCoverage(i, includeJS, includeCSS)
        \/ \E jsOk \in BOOLEAN, cssOk \in BOOLEAN : StartSettled(i, jsOk, cssOk)
        \/ \E pageSize \in PageSizes, pageIdx \in PageIdxs :
               StopCoverage(i, pageSize, pageIdx)
        \/ \E result \in StopOutcomes : StopJSSettled(i, result)
        \/ \E result \in StopOutcomes : StopCSSSettled(i, result)
        \/ SuggestCodeSplits(i)

Spec == Init /\ [][Next]_vars

(***************************************************************************)
(* The classifier on its own: one raw record, well formed or not, is       *)
(* classified.                                                             *)
(***************************************************************************)
Ranges == [start : 0..MaxLen, end : 0..MaxLen]

RawRecords ==
    [url : {Url("a", "http", "site", FALSE), Url("b", "http", "cdn", FALSE)},
     hasText : {TRUE},
     text : 0..MaxLen,
     ranges : SeqsUpTo(Ranges, MaxRanges)]

InitEntry ==
    /\ InitSession
    /\ input \in {Some(r) : r \in RawRecords}
    /\ output = None

ClassifyRecord ==
    /\ output = None
    /\ output' = Some(calculateCoverageEntry(input[1], PageUrl))
    /\ UNCHANGED <<sessionVars, input>>

NextEntry == ClassifyRecord

SpecEntry == InitEntry /\ [][NextEntry]_vars

(***************************************************************************)
(* Properties of the session state machine.                                *)
(***************************************************************************)
ProviderUntouched == active' = active

\* the provider calls made by the handler that returned last
CallsOf(name) == Cardinality({k \in DOMAIN response.log : response.log[k] = name})

\* C1: a coverage_start invoked while the running flag is true is rejected as
\* already running, whatever includeJS and includeCSS are: it makes no
\* provider call, the flag stays true and the coverage options are unchanged.
StartWhileRunningRejected ==
    [][\A i \in CallIds, includeJS \in BOOLEAN, includeCSS \in BOOLEAN :
          (running /\ StartCoverage(i, includeJS, includeCSS))
          => /\ calls'[i].pc = "done"
             /\ response'.outcome = "alreadyRunning"
             /\ response'.log = <<>>
             /\ running'
             /\ coverageOptions' = coverageOptions
             /\ ProviderUntouched]_vars

\* a start with both flags false was rejected as already running (not as
\* lacking a type) and the session is still running
StartWhileRunningSeen ==
    /\ response.tool = "coverage_start"
    /\ response.outcome = "alreadyRunning"
    /\ ~response.includeJS /\ ~response.includeCSS
    /\ running

\* C2: a coverage_stop invoked while the running flag is false is rejected
\* with "No coverage tracking is running": no provider stop is called, no
\* report is produced, and the flag, the options and the last coverage
\* report are unchanged.
StopWhileIdleRejected ==
    [][\A i \in CallIds, pageSize \in PageSizes, pageIdx \in PageIdxs :
          (~running /\ StopCoverage(i, pageSize, pageIdx))
          => /\ calls'[i].pc = "done"
             /\ response'.outcome = "notRunning"
             /\ response'.log = <<>>
             /\ response'.report = None
             /\ ~running'
             /\ coverageOptions' = coverageOptions
             /\ lastCoverageReport' = lastCoverageReport
             /\ ProviderUntouched]_vars

\* a stop was rejected while idle after an accepted start had set the options
StopWhileIdleSeen ==
    /\ response.tool = "coverage_stop"
    /\ response.outcome = "notRunning"
    /\ ~running
    /\ coverageOptions # [includeJS |-> TRUE, includeCSS |-> TRUE]

\* C3: every coverage_stop that was accepted (invoked while the running flag
\* was true) returns with the running flag false, whether it produced the
\* report or a provider stop call or the classification threw.
StopAlwaysClearsRunning ==
    [][\A i \in CallIds :
          /\ (calls[i].tool = "coverage_stop" /\ calls'[i].pc = "done"
              => ~running')
          /\ \A pageSize \in PageSizes, pageIdx \in PageIdxs :
                (running /\ StopCoverage(i, pageSize, pageIdx)
                 /\ calls'[i].pc = "done") => ~running']_vars

\* a stop that failed at its first provider call, with a second one still
\* due, has returned and the flag is false
StopClearedAfterThrowSeen ==
    /\ response.tool = "coverage_stop"
    /\ response.outcome = "stopError"
    /\ response.includeCSS
    /\ response.log = <<"stopJSCoverage">>
    /\ ~running

\* C4: a coverage_start invoked while idle with includeJS and includeCSS both
\* false reports an error, calls neither provider start, and leaves the
\* running flag false and the coverage options unchanged.
StartWithoutTypeRejected ==
    [][\A i \in CallIds :
          (~running /\ StartCoverage(i, FALSE, FALSE))
          => /\ calls'[i].pc = "done"
             /\ response'.outcome = "noneIncluded"
             /\ response'.log = <<>>
             /\ ~running'
             /\ coverageOptions' = coverageOptions
             /\ ProviderUntouched]_vars

\* such a start was rejected after an earlier session had changed the options
StartWithoutTypeSeen ==
    /\ response.tool = "coverage_start"
    /\ response.outcome = "noneIncluded"
    /\ ~running
    /\ coverageOptions # [includeJS |-> TRUE, includeCSS |-> TRUE]

\* C5: when a provider start call throws, the coverage_start handler reports
\* the error and returns with the running flag false, so that the next
\* coverage_start (with a type included) is accepted, not rejected as already
\* running.
FailedStartClearsRunning ==
    [][/\ \A i \in CallIds, jsOk \in BOOLEAN, cssOk \in BOOLEAN :
             (~(jsOk /\ cssOk) /\ StartSettled(i, jsOk, cssOk))
             => /\ calls'[i].pc = "done"
                /\ response'.outcome = "startError"
                /\ ~running'
       /\ \A i \in CallIds, includeJS \in BOOLEAN, includeCSS \in BOOLEAN :
             (/\ response.outcome = "startError"
              /\ \A j \in CallIds : calls[j].pc \in {"new", "done"}
              /\ includeJS \/ includeCSS
              /\ StartCoverage(i, includeJS, includeCSS))
             => calls'[i].pc = "awaitStart"]_vars

\* a start is suspended at the provider right after a failed start returned
StartAfterFailedStartSeen ==
    /\ response.tool = "coverage_start"
    /\ response.outcome = "startError"
    /\ invoked >= 2
    /\ calls[invoked].pc = "awaitStart"
    /\ \A j \in CallIds : j # invoked => calls[j].pc \in {"new", "done"}

\* C6: after a coverage_stop that completed without error, the session's
\* last coverage report is the report that stop computed (so that
\* suggest_code_splits finds coverage data).
StopStoresReport ==
    (response.tool = "coverage_stop" /\ response.outcome = "report")
    => lastCoverageReport = response.report

\* C7: when a provider stop call or the classification throws during
\* coverage_stop, the stored last coverage report is unchanged, the caller
\* gets the error description and no report section, and the running flag
\* is cleared.
FailedStopPublishesNothing ==
    [][\A i \in CallIds, result \in StopOutcomes :
          (/\ ~result.ok \/ ClassifyThrows(result.records)
           /\ StopJSSettled(i, result) \/ StopCSSSettled(i, result))
          => /\ calls'[i].pc = "done"
             /\ response'.outcome = "stopError"
             /\ response'.report = None
             /\ lastCoverageReport' = lastCoverageReport
             /\ ~running']_vars

\* a stop failed after its JS records had been collected and classified
FailedStopAfterJSSeen ==
    /\ response.tool = "coverage_stop"
    /\ response.outcome = "stopError"
    /\ response.report = None
    /\ response.log = <<"stopJSCoverage", "stopCSSCoverage">>
    /\ ~running

\* C8: there is at most one active tracking session at a time: whatever the
\* interleaving of the handlers, at most one coverage_start is accepted
\* (reaches the provider) until a coverage_stop has completed; every other
\* one is rejected as already running.
OneAcceptedStartPerStop == acceptedSinceStop <= 1

\* C9: for each type, an accepted coverage_start calls the provider's start
\* once if the type is included and not at all otherwise, and an accepted
\* coverage_stop calls the provider's stop once if the type is included in
\* the coverage options and not at all otherwise.
ProviderCalledPerType ==
    /\ (response.tool = "coverage_start"
        /\ response.outcome \in {"started", "startError"})
       => /\ CallsOf("startJSCoverage") = (IF response.includeJS THEN 1 ELSE 0)
          /\ CallsOf("startCSSCoverage") = (IF response.includeCSS THEN 1 ELSE 0)
    /\ (response.tool = "coverage_stop"
        /\ response.outcome \in {"report", "stopError"})
       => /\ CallsOf("stopJSCoverage") = (IF response.includeJS THEN 1 ELSE 0)
          /\ CallsOf("stopCSSCoverage") = (IF response.includeCSS THEN 1 ELSE 0)

(***************************************************************************)
(* Properties of the classifier.                                           *)
(***************************************************************************)
\* the ranges of a record are intervals (start <= end) inside
\* [0, sourceLength], no two of which overlap
WellFormed(rec) ==
    /\ \A k \in DOMAIN rec.ranges :
          /\ 0 <= rec.ranges[k].start
          /\ rec.ranges[k].start <= rec.ranges[k].end
          /\ rec.ranges[k].end <= rec.text
    /\ \A j, k \in DOMAIN rec.ranges :
          j < k => \/ rec.ranges[j].end <= rec.ranges[k].start
                   \/ rec.ranges[k].end <= rec.ranges[j].start

\* C10: the entry derived from a record with non-overlapping ranges inside
\* [0, sourceLength] has usedBytes + unusedBytes = totalBytes,
\* 0 <= usedBytes <= totalBytes, 0 <= usagePercent <= 100, and
\* usagePercent = 0 when totalBytes = 0.
EntryBytesConsistent ==
    (output # None /\ WellFormed(input[1]))
    => LET e == output[1] IN
       /\ e.totalBytes = input[1].text
       /\ e.usedBytes + e.unusedBytes = e.totalBytes
       /\ 0 <= e.usedBytes /\ e.usedBytes <= e.totalBytes
       /\ 0 <= e.usagePercent.num
       /\ e.usagePercent.num <= 100 * e.usagePercent.den
       /\ e.totalBytes = 0 => e.usagePercent.num = 0

\* a record with two separate non-empty ranges, partly used, was classified
EntryPartlyUsedSeen ==
    /\ output # None
    /\ WellFormed(input[1])
    /\ Len(input[1].ranges) = 2
    /\ \A k \in 1..2 : input[1].ranges[k].start < input[1].ranges[k].end
    /\ 0 < output[1].usedBytes
    /\ output[1].usedBytes < output[1].totalBytes


(***************************************************************************)
(* The report builder on its own: lists of raw records are classified and  *)
(* one report is built from them for one pair of pagination parameters.    *)
(***************************************************************************)
\* most JS records of a list with freely chosen sizes
MaxEntries == 3
\* most CSS records
MaxCssEntries == 1
\* largest page index asked for
MaxPageIdx == 2
\* length of the longest list, one that spans several pages of any size
MaxLongList == 7

ReportRecord(k, origin, text, used) ==
    [url |-> Url(k, "http", origin, FALSE), hasText |-> TRUE, text |-> text,
     ranges |-> IF used = 0 THEN <<>> ELSE <<[start |-> 0, end |-> used]>>]

\* text length and used bytes of the records of the short lists: unused
\* bytes 1, 1, 2 and 0
JsShapes == {[text |-> 1, used |-> 0], [text |-> 2, used |-> 1],
             [text |-> 2, used |-> 0], [text |-> 0, used |-> 0]}
CssShapes == {[text |-> 3, used |-> 1], [text |-> 1, used |-> 1]}

ShapedLists(origin, shapes, m) ==
    {[k \in 1..m |-> ReportRecord(k, origin, f[k].text, f[k].used)] :
        f \in [1..m -> shapes]}

ShortLists(origin, shapes, max) ==
    UNION {ShapedLists(origin, shapes, m) : m \in 0..max}

\* n records whose unused bytes grow with their position: 1, 2, ..., n
LongList(n) ==
    [k \in 1..n |-> ReportRecord(k, "site", MaxLongList, MaxLongList - k)]

ReportInputs ==
    [js : ShortLists("site", JsShapes, MaxEntries),
     css : ShortLists("cdn", CssShapes, MaxCssEntries),
     pageSize : 1..MaxPageSize,
     pageIdx : 0..MaxPageIdx]
    \cup
    [js : {LongList(n) : n \in 0..MaxLongList},
     css : {<<>>},
     pageSize : 1..MaxPageSize,
     pageIdx : 0..MaxPageIdx]

InitReport ==
    /\ InitSession
    /\ input \in {Some(r) : r \in ReportInputs}
    /\ output = None

BuildCoverageReport ==
    /\ output = None
    /\ output' = Some(BuildReport(
                    [k \in DOMAIN input[1].js |->
                        calculateCoverageEntry(input[1].js[k], PageUrl)],
                    [k \in DOMAIN input[1].css |->
                        calculateCoverageEntry(input[1].css[k], PageUrl)],
                    [pageSize |-> input[1].pageSize,
                     pageIdx |-> input[1].pageIdx]))
    /\ UNCHANGED <<sessionVars, input>>

NextReport == BuildCoverageReport

SpecReport == InitReport /\ [][NextReport]_vars

(***************************************************************************)
(* Properties of the report builder.                                       *)
(***************************************************************************)
\* the classified entries of a list of raw records, in provider order
EntriesOf(records) ==
    [k \in DOMAIN records |-> calculateCoverageEntry(records[k], PageUrl)]

\* the place of entry k in the order "more unused bytes first, equal unused
\* bytes in provider order"
StableRank(list, k) ==
    1 + Cardinality({j \in DOMAIN list :
                        \/ list[j].unusedBytes > list[k].unusedBytes
                        \/ /\ list[j].unusedBytes = list[k].unusedBytes
                           /\ j < k})

\* the list in that order
StableOrder(list) ==
    [i \in DOMAIN list |->
        list[CHOOSE k \in DOMAIN list : StableRank(list, k) = i]]

\* the page is the window of the ordered list that its showing line names
WindowOfOrder(records, page, info) ==
    LET all == StableOrder(EntriesOf(records))
    IN IF all = <<>> THEN page = <<>> /\ info = None
       ELSE /\ info # None
            /\ page = SubSeq(all, info[1].showingFrom, info[1].showingTo)

\* C11: the JS entries and the CSS entries of every report are each ordered
\* by unusedBytes, largest first, over the whole list before pagination,
\* entries with equal unusedBytes in provider order; the page of the report
\* is a window of consecutive entries of that order.
ReportSortedStable ==
    output # None =>
        /\ WindowOfOrder(input[1].js, output[1].jsCoverage,
                         output[1].jsPagination)
        /\ WindowOfOrder(input[1].css, output[1].cssCoverage,
                         output[1].cssPagination)

\* a second page of one entry, cut from three entries of which the first two
\* tie and the third has more unused bytes than both
TiedEntriesPagedSeen ==
    /\ output # None
    /\ Len(input[1].js) = 3
    /\ input[1].pageSize = 1 /\ input[1].pageIdx = 1
    /\ LET e == EntriesOf(input[1].js)
       IN /\ e[1].unusedBytes = e[2].unusedBytes
          /\ e[1].totalBytes # e[2].totalBytes
          /\ e[3].unusedBytes > e[1].unusedBytes
          /\ output[1].jsCoverage = <<e[1]>>

\* C12: the summary of a report is the number of all classified JS and CSS
\* entries and the sums of their totalBytes, usedBytes and unusedBytes,
\* whatever page size and page index were asked for.
SummaryOverAllEntries ==
    output # None =>
        LET all == EntriesOf(input[1].js) \o EntriesOf(input[1].css)
            summary == output[1].summary
        IN /\ summary.totalResources = Len(all)
           /\ summary.totalBytes = SumField(all, "totalBytes")
           /\ summary.usedBytes = SumField(all, "usedBytes")
           /\ summary.unusedBytes = SumField(all, "unusedBytes")

\* a report whose page leaves out entries that the summary counts
SummaryBeyondPageSeen ==
    /\ output # None
    /\ input[1].css # <<>>
    /\ Len(output[1].jsCoverage) < Len(input[1].js)
    /\ output[1].summary.totalResources = Len(input[1].js) + 1
    /\ output[1].summary.unusedBytes > 0

\* the page k of size p of the ordered list of n entries, k * p < n
InRangePage(records, page, info, p, k) ==
    LET all == StableOrder(EntriesOf(records))
        n == Len(all)
        upto == Min(n, (k + 1) * p)
    IN k * p < n =>
        /\ page = SubSeq(all, k * p + 1, upto)
        /\ Len(page) <= p
        /\ info # None
        /\ info[1].showingFrom = k * p + 1
        /\ info[1].showingTo = upto
        /\ info[1].showingOf = n
        /\ info[1].hasNextPage = ((k + 1) * p < n)
        /\ info[1].hasPreviousPage = (k > 0)

\* C13: for a list of n entries, a page size p in 1..5 and a page index k
\* with k * p < n, the page holds exactly the entries k*p+1 .. min(n, (k+1)*p)
\* of the ordered list, at most p of them, the showing line reads
\* "Showing k*p+1-min(n, (k+1)*p) of n", hasNextPage is (k+1)*p < n and
\* hasPreviousPage is k > 0.
PageIsWindow ==
    output # None =>
        /\ InRangePage(input[1].js, output[1].jsCoverage,
                       output[1].jsPagination, input[1].pageSize,
                       input[1].pageIdx)
        /\ InRangePage(input[1].css, output[1].cssCoverage,
                       output[1].cssPagination, input[1].pageSize,
                       input[1].pageIdx)

\* seven entries, page size 5, page 1: entries 6 and 7
SecondPageOfSevenSeen ==
    /\ output # None
    /\ Len(input[1].js) = 7
    /\ input[1].pageSize = 5 /\ input[1].pageIdx = 1
    /\ Len(output[1].jsCoverage) = 2
    /\ output[1].jsPagination # None
    /\ output[1].jsPagination[1].showingFrom = 6
    /\ output[1].jsPagination[1].showingTo = 7
    /\ ~output[1].jsPagination[1].hasNextPage
    /\ output[1].jsPagination[1].hasPreviousPage

(***************************************************************************)
(* Bundle chain detection.  A request is what detectBundleChains reads of  *)
(* an HTTPRequest: its url, resourceType, whether it has a response and    *)
(* the response a timing, requestTime (here in ms), receiveHeadersEnd and  *)
(* the content-length header (None when absent, else the number it holds). *)
(***************************************************************************)
\* const CHAIN_GAP_THRESHOLD_MS = 50
CHAIN_GAP_THRESHOLD_MS == 50

\* a response without timing read as one with it
TimingNeverMissing(request) == FALSE

\* if (!timing) return null
TimingMissing(request) == ~request.hasTiming

getRequestTiming(request) ==
    IF ~request.hasResponse THEN None
    ELSE IF TimingMissing(request) THEN None
    ELSE Some([startTimeMs |-> request.requestTimeMs,
               endTimeMs |-> request.requestTimeMs + request.receiveHeadersEnd,
               sizeBytes |-> IF request.contentLength = None THEN 0
                             ELSE request.contentLength[1]])

RECURSIVE ScriptsWithTiming(_)
\* requests.filter(resourceType === 'script'), then the requests with timing
ScriptsWithTiming(requests) ==
    IF requests = <<>> THEN <<>>
    ELSE LET request == Head(requests)
             timing == getRequestTiming(request)
         IN (IF request.resourceType = "script" /\ timing # None
             THEN <<[url |-> request.url,
                     startTimeMs |-> timing[1].startTimeMs,
                     endTimeMs |-> timing[1].endTimeMs,
                     sizeBytes |-> timing[1].sizeBytes]>>
             ELSE <<>>) \o ScriptsWithTiming(Tail(requests))

\* the comparator (a, b) => a.endTimeMs - b.endTimeMs
ByEndTime(a, b) == a.endTimeMs - b.endTimeMs

RECURSIVE InsertByEndTime(_, _)
InsertByEndTime(e, sorted) ==
    IF sorted = <<>> THEN <<e>>
    ELSE IF ByEndTime(Head(sorted), e) <= 0
         THEN <<Head(sorted)>> \o InsertByEndTime(e, Tail(sorted))
         ELSE <<e>> \o sorted

RECURSIVE StableSortByEndTime(_)
StableSortByEndTime(list) ==
    IF list = <<>> THEN <<>>
    ELSE InsertByEndTime(list[Len(list)],
                         StableSortByEndTime(SubSeq(list, 1, Len(list) - 1)))

\* the scripts left in the order they were collected
LeftUnsorted(list) == list

\* scriptsWithTiming.sort((a, b) => a.endTimeMs - b.endTimeMs)
SortByEndTime(list) == StableSortByEndTime(list)

\* the gap test with the upper end left out
WithinGapExclusive(current, s) ==
    /\ s.startTimeMs >= current.endTimeMs
    /\ s.startTimeMs < current.endTimeMs + CHAIN_GAP_THRESHOLD_MS

\* s starts after current ended, within the gap threshold
WithinGap(current, s) ==
    /\ s.startTimeMs >= current.endTimeMs
    /\ s.startTimeMs <= current.endTimeMs + CHAIN_GAP_THRESHOLD_MS

\* the match that comes last in the sorted scripts
LastMatch(matches) == CHOOSE k \in matches : \A j \in matches : k >= j

\* Array.prototype.find: the match that comes first
FirstMatch(matches) == CHOOSE k \in matches : \A j \in matches : k <= j

\* scriptsWithTiming.find(...): the index of the first match, 0 for none
FindNextScript(scripts, usedUrls, current) ==
    LET matches == {k \in DOMAIN scripts :
                        /\ scripts[k].url \notin usedUrls
                        /\ WithinGap(current, scripts[k])}
    IN IF matches = {} THEN 0 ELSE FirstMatch(matches)

ChainNode(script) ==
    [url |-> script.url,
     sizeBytes |-> script.sizeBytes,
     startTimeMs |-> script.startTimeMs,
     endTimeMs |-> script.endTimeMs,
     loadTimeMs |-> script.endTimeMs - script.startTimeMs]

RECURSIVE GrowChain(_, _, _)
\* the while loop: the nodes of the chain that starts at currentScript and
\* the urls used once it is grown
GrowChain(scripts, usedUrls, currentScript) ==
    LET used == usedUrls \cup {currentScript.url}
        next == FindNextScript(scripts, used, currentScript)
    IN IF next = 0
       THEN [chainNodes |-> <<ChainNode(currentScript)>>, usedUrls |-> used]
       ELSE LET rest == GrowChain(scripts, used, scripts[next])
            IN [chainNodes |-> <<ChainNode(currentScript)>> \o rest.chainNodes,
                usedUrls |-> rest.usedUrls]

\* the linking loop stopping one node early
LinkedAllButTwo(chainNodes) == Len(chainNodes) - 2

\* for (i = 0; i < chainNodes.length - 1; i++): the nodes given a child
LinkedNodes(chainNodes) == Len(chainNodes) - 1

RECURSIVE LinkFrom(_, _, _)
\* node i with chainNodes[i].children = [chainNodes[i + 1]] for the linked
\* nodes, children = [] for the others
LinkFrom(chainNodes, i, linked) ==
    [url |-> chainNodes[i].url,
     sizeBytes |-> chainNodes[i].sizeBytes,
     startTimeMs |-> chainNodes[i].startTimeMs,
     endTimeMs |-> chainNodes[i].endTimeMs,
     loadTimeMs |-> chainNodes[i].loadTimeMs,
     children |-> IF i <= linked
                  THEN <<LinkFrom(chainNodes, i + 1, linked)>>
                  ELSE <<>>]

TotalTimeMs(chainNodes) ==
    chainNodes[Len(chainNodes)].endTimeMs - chainNodes[1].startTimeMs

\* chainNodes.length >= minChainDepth
DeepEnough(chainNodes, minChainDepth) == Len(chainNodes) >= minChainDepth

\* the time test with > in place of >=
LongEnoughStrict(totalTimeMs, minChainTimeMs) == totalTimeMs > minChainTimeMs

\* totalTimeMs >= minChainTimeMs
LongEnough(totalTimeMs, minChainTimeMs) == totalTimeMs >= minChainTimeMs

\* what chains.push adds for a grown chain: one chain or nothing
ChainsOf(chainNodes, minChainDepth, minChainTimeMs) ==
    IF DeepEnough(chainNodes, minChainDepth)
    THEN IF LongEnough(TotalTimeMs(chainNodes), minChainTimeMs)
         THEN <<[depth |-> Len(chainNodes),
                 totalTimeMs |-> TotalTimeMs(chainNodes),
                 urls |-> [k \in DOMAIN chainNodes |-> chainNodes[k].url],
                 root |-> LinkFrom(chainNodes, 1, LinkedNodes(chainNodes))]>>
         ELSE <<>>
    ELSE <<>>

\* if (usedUrls.has(script.url)) continue
HeadAlreadyUsed(usedUrls, script) == script.url \in usedUrls

\* only the head of a grown chain kept in usedUrls once the chain is grown
OnlyHeadUsed(usedUrls, head, grown) == usedUrls \cup {head.url}

\* the url of a chain of one node given back once the chain is dropped
ReleasedIfDropped(usedUrls, head, grown) ==
    IF Len(grown.chainNodes) < 2 THEN usedUrls ELSE grown.usedUrls

\* usedUrls.add(currentScript.url) for every node of the grown chain
UsedAfterGrowth(usedUrls, head, grown) == grown.usedUrls

RECURSIVE DetectFrom(_, _, _, _, _)
\* the for loop over scriptsWithTiming from index k on: the chains returned
\* and, in grown, the node lists of all chains grown
DetectFrom(scripts, k, usedUrls, minChainDepth, minChainTimeMs) ==
    IF k > Len(scripts) THEN [chains |-> <<>>, grown |-> <<>>]
    ELSE IF HeadAlreadyUsed(usedUrls, scripts[k])
    THEN DetectFrom(scripts, k + 1, usedUrls, minChainDepth, minChainTimeMs)
    ELSE LET g == GrowChain(scripts, usedUrls, scripts[k])
             rest == DetectFrom(scripts, k + 1,
                                UsedAfterGrowth(usedUrls, scripts[k], g),
                                minChainDepth, minChainTimeMs)
         IN [chains |-> ChainsOf(g.chainNodes, minChainDepth, minChainTimeMs)
                            \o rest.chains,
             grown |-> <<g.chainNodes>> \o rest.grown]

detectBundleChains(requests, minChainDepth, minChainTimeMs) ==
    DetectFrom(SortByEndTime(ScriptsWithTiming(requests)), 1, {},
               minChainDepth, minChainTimeMs)

RECURSIVE CombinedSize(_)
\* while (node) { combinedSize += node.sizeBytes; node = node.children[0] }
CombinedSize(node) ==
    node.sizeBytes + (IF node.children = <<>> THEN 0
                      ELSE CombinedSize(node.children[1]))

RECURSIVE identifyMergeCandidates(_)
\* combinedSizeKB is combinedSize / 1024, kept as the exact fraction
identifyMergeCandidates(chains) ==
    IF chains = <<>> THEN <<>>
    ELSE (IF Len(Head(chains).urls) >= 2
          THEN <<[urls |-> Head(chains).urls,
                  combinedSizeKB |->
                      [num |-> CombinedSize(Head(chains).root), den |-> 1024]]>>
          ELSE <<>>) \o identifyMergeCandidates(Tail(chains))

(***************************************************************************)
(* analyze_bundle_chains on its own: the handler runs once over the        *)
(* network requests of the page.                                           *)
(***************************************************************************)
\* most network requests of the page
MaxRequests == 3

ChainUrls == {"a", "b", "c"}
\* request and response-header times, in ms
Times == {0, 50, 110}
\* the content-length header of each url; "c" is served without one
ContentLength(url) ==
    IF url = "a" THEN Some(2048) ELSE IF url = "b" THEN Some(1024) ELSE None

TimedScript(url, startTimeMs, endTimeMs) ==
    [url |-> url, resourceType |-> "script", hasResponse |-> TRUE,
     hasTiming |-> TRUE, requestTimeMs |-> startTimeMs,
     receiveHeadersEnd |-> endTimeMs - startTimeMs,
     contentLength |-> ContentLength(url)]

\* the navigation request: not a script, no response
DocumentRequest ==
    [url |-> "doc", resourceType |-> "document", hasResponse |-> FALSE,
     hasTiming |-> FALSE, requestTimeMs |-> 0, receiveHeadersEnd |-> 0,
     contentLength |-> None]

\* a script whose response carries no timing
UntimedScript ==
    [url |-> "b", resourceType |-> "script", hasResponse |-> TRUE,
     hasTiming |-> FALSE, requestTimeMs |-> 0, receiveHeadersEnd |-> 0,
     contentLength |-> None]

NetworkRequests ==
    {TimedScript(u, span[1], span[2]) :
        u \in ChainUrls, span \in {sp \in Times \X Times : sp[1] <= sp[2]}}
    \cup {DocumentRequest, UntimedScript}

\* minChainDepth: int, min 2, default 2; minChainTimeMs: min 0, default 100
MinChainDepths == {2, 3}
MinChainTimes == {0, 100}

ChainInputs ==
    [requests : SeqsUpTo(NetworkRequests, MaxRequests),
     minChainDepth : MinChainDepths,
     minChainTimeMs : MinChainTimes]

InitChains ==
    /\ InitSession
    /\ input \in {Some(r) : r \in ChainInputs}
    /\ output = None

\* what the handler works out and prints, from the network requests
analyzeBundleChains(requests, minChainDepth, minChainTimeMs) ==
    LET scriptRequests == {k \in DOMAIN requests :
                             requests[k].resourceType = "script"}
        detected == detectBundleChains(requests, minChainDepth, minChainTimeMs)
    IN IF scriptRequests = {}
       THEN [outcome |-> "noScripts", chains |-> <<>>,
             grown |-> <<>>, mergeCandidates |-> <<>>]
       ELSE IF detected.chains = <<>>
       THEN [outcome |-> "noChains", chains |-> <<>>,
             grown |-> detected.grown, mergeCandidates |-> <<>>]
       ELSE [outcome |-> "chains", chains |-> detected.chains,
             grown |-> detected.grown,
             mergeCandidates |-> identifyMergeCandidates(detected.chains)]

AnalyzeBundleChains ==
    /\ output = None
    /\ output' = Some(analyzeBundleChains(input[1].requests,
                                          input[1].minChainDepth,
                                          input[1].minChainTimeMs))
    /\ UNCHANGED <<sessionVars, input>>

NextChains == AnalyzeBundleChains

SpecChains == InitChains /\ [][NextChains]_vars

(***************************************************************************)
(* Properties of chain detection.                                          *)
(***************************************************************************)
\* the timed script records of the input, in input order
TimedScripts == ScriptsWithTiming(input[1].requests)

\* what the claim says of two timed scripts taken as A and B
ChainOfTwo(A, B) ==
    /\ (/\ A.endTimeMs <= B.startTimeMs
        /\ B.startTimeMs <= A.endTimeMs + 50
        /\ input[1].minChainTimeMs <= B.endTimeMs - A.startTimeMs)
       => /\ Len(output[1].chains) = 1
          /\ output[1].chains[1].depth = 2
          /\ output[1].chains[1].urls = <<A.url, B.url>>
    /\ B.startTimeMs > A.endTimeMs + 50 => output[1].chains = <<>>

\* C14 as stated: when the only timed scripts are A and B with
\* A.end <= B.start <= A.end + 50, minChainDepth = 2 and
\* minChainTimeMs <= B.end - A.start, exactly one chain is returned, of
\* depth 2 with urls [A, B]; when B.start > A.end + 50 no chain is returned.
TwoScriptsChained ==
    (output # None /\ Len(TimedScripts) = 2 /\ input[1].minChainDepth = 2)
        => /\ ChainOfTwo(TimedScripts[1], TimedScripts[2])
           /\ ChainOfTwo(TimedScripts[2], TimedScripts[1])

\* the timed script at index a is processed before the one at index b: it
\* ends earlier, or at the same time and comes earlier in the input
ProcessedBefore(a, b) ==
    \/ TimedScripts[a].endTimeMs < TimedScripts[b].endTimeMs
    \/ /\ TimedScripts[a].endTimeMs = TimedScripts[b].endTimeMs
       /\ a < b

\* the chain of two timed scripts with different urls, a taken as A
ChainOfTwoInOrder(a, b) ==
    LET A == TimedScripts[a]
        B == TimedScripts[b]
        chains == output[1].chains
    IN /\ (/\ A.endTimeMs <= B.startTimeMs
           /\ B.startTimeMs <= A.endTimeMs + 50
           /\ input[1].minChainTimeMs <= B.endTimeMs - A.startTimeMs)
          => IF ProcessedBefore(a, b)
             THEN /\ Len(chains) = 1
                  /\ chains[1].depth = 2
                  /\ chains[1].urls = <<A.url, B.url>>
             ELSE IF A.startTimeMs = B.endTimeMs
             THEN /\ Len(chains) = 1
                  /\ chains[1].depth = 2
                  /\ chains[1].urls = <<B.url, A.url>>
             ELSE chains = <<>>
       /\ B.startTimeMs > A.endTimeMs + 50 => chains = <<>>

\* C14, amended: when the only timed scripts are A and B, with different
\* urls, A.end <= B.start <= A.end + 50, minChainDepth = 2 and
\* minChainTimeMs <= B.end - A.start, and A is processed before B (A ends
\* earlier, or at the same time and earlier in the input), exactly one chain
\* is returned, of depth 2 with urls [A, B]; if B is processed first the
\* chain is [B, A] when A also starts at B.end, and no chain is returned
\* otherwise; when B.start > A.end + 50 no chain is returned.
TwoScriptsChainedInOrder ==
    (/\ output # None
     /\ Len(TimedScripts) = 2
     /\ input[1].minChainDepth = 2
     /\ TimedScripts[1].url # TimedScripts[2].url)
        => /\ ChainOfTwoInOrder(1, 2)
           /\ ChainOfTwoInOrder(2, 1)

\* a document request, then B and A with B starting 50 ms after A ended:
\* the chain [A, B]
ChainAtGapThresholdSeen ==
    /\ output # None
    /\ Len(input[1].requests) = 3
    /\ input[1].requests[1] = DocumentRequest
    /\ Len(TimedScripts) = 2
    /\ input[1].minChainDepth = 2 /\ input[1].minChainTimeMs = 100
    /\ TimedScripts[2].endTimeMs = 0
    /\ TimedScripts[1].startTimeMs = 50
    /\ TimedScripts[1].endTimeMs = 110
    /\ Len(output[1].chains) = 1
    /\ output[1].chains[1].urls = <<TimedScripts[2].url, TimedScripts[1].url>>

Elapsed(chainNodes) ==
    chainNodes[Len(chainNodes)].endTimeMs - chainNodes[1].startTimeMs

UrlsOf(chainNodes) == [k \in DOMAIN chainNodes |-> chainNodes[k].url]

\* the grown chains that are deep enough and long enough, in growth order
GrownKept ==
    SelectSeq(output[1].grown,
              LAMBDA g : /\ Len(g) >= input[1].minChainDepth
                         /\ Elapsed(g) >= input[1].minChainTimeMs)

\* C15: a grown chain is returned if and only if it has at least
\* minChainDepth nodes and its elapsed time, tail endTimeMs minus head
\* startTimeMs, is at least minChainTimeMs; every returned chain has depth
\* equal to its number of urls and totalTimeMs equal to that elapsed time.
KeptIffDeepAndLong ==
    output # None =>
        /\ Len(output[1].chains) = Len(GrownKept)
        /\ \A i \in DOMAIN output[1].chains :
              /\ output[1].chains[i].urls = UrlsOf(GrownKept[i])
              /\ output[1].chains[i].depth = Len(output[1].chains[i].urls)
              /\ output[1].chains[i].totalTimeMs = Elapsed(GrownKept[i])

\* two chains grown, one returned with elapsed time 110 >= 100 and one
\* dropped
OneChainDroppedSeen ==
    /\ output # None
    /\ input[1].minChainTimeMs = 100
    /\ Len(output[1].grown) = 2
    /\ Len(output[1].chains) = 1
    /\ output[1].chains[1].totalTimeMs = 110
    /\ output[1].chains[1].depth = 2

\* the urls of all returned chains, one chain after the other
RECURSIVE FlatUrls(_)
FlatUrls(chains) ==
    IF chains = <<>> THEN <<>>
    ELSE Head(chains).urls \o FlatUrls(Tail(chains))

RECURSIVE RootUrls(_)
\* the urls of the nodes of a chain, walked from its root
RootUrls(node) ==
    <<node.url>> \o (IF node.children = <<>> THEN <<>>
                     ELSE RootUrls(node.children[1]))

\* C16: a script belongs to at most one chain: no url, and so no script
\* record, occurs in two returned chains or twice within one, in the urls of
\* the chains and in the nodes under their roots.
ScriptInAtMostOneChain ==
    output # None =>
        LET urls == FlatUrls(output[1].chains)
        IN /\ \A i, j \in DOMAIN urls : i # j => urls[i] # urls[j]
           /\ \A c \in DOMAIN output[1].chains :
                 RootUrls(output[1].chains[c].root) = output[1].chains[c].urls

\* three timed scripts of which the first and the last have the same url:
\* one chain of depth 2 is returned and that url is in it once
RepeatedUrlChainedOnceSeen ==
    /\ output # None
    /\ Len(TimedScripts) = 3
    /\ TimedScripts[1].url = TimedScripts[3].url
    /\ TimedScripts[1].url # TimedScripts[2].url
    /\ TimedScripts[1].startTimeMs # TimedScripts[3].startTimeMs
    /\ Len(output[1].chains) = 1
    /\ output[1].chains[1].depth = 2
    /\ output[1].chains[1].urls[2] = TimedScripts[1].url

\* the requests in every order
Orderings(requests) ==
    {[k \in DOMAIN requests |-> requests[p[k]]] :
        p \in Permutations(DOMAIN requests)}

ChainUrlLists(chains) == [k \in DOMAIN chains |-> chains[k].urls]

\* every ordering of the requests gives the chains of the output
SameChainsInEveryOrder ==
    \A requests \in Orderings(input[1].requests) :
        ChainUrlLists(detectBundleChains(requests, input[1].minChainDepth,
                                         input[1].minChainTimeMs).chains)
            = ChainUrlLists(output[1].chains)

\* C17 as stated: for any two orderings of the same network records and the
\* same thresholds the returned chains, their urls in chain order, are the
\* same.
OrderIndependent ==
    (output # None /\ output[1].outcome # "noScripts")
        => SameChainsInEveryOrder

DistinctEndTimes ==
    LET timed == TimedScripts
    IN \A i, j \in DOMAIN timed :
          i # j => timed[i].endTimeMs # timed[j].endTimeMs

\* C17, amended: for network records whose timed scripts end at pairwise
\* different times, any two orderings of the records give the same returned
\* chains for the same thresholds; timed scripts that end at the same time
\* are processed in input order.
OrderIndependentDistinctEnds ==
    (output # None /\ output[1].outcome # "noScripts" /\ DistinctEndTimes)
        => SameChainsInEveryOrder

\* three timed scripts given latest-ending first, all ending at different
\* times, chained in end-time order
ReversedInputChainedSeen ==
    /\ output # None
    /\ Len(TimedScripts) = 3
    /\ DistinctEndTimes
    /\ TimedScripts[1].endTimeMs > TimedScripts[2].endTimeMs
    /\ TimedScripts[2].endTimeMs > TimedScripts[3].endTimeMs
    /\ Len(output[1].chains) = 1
    /\ output[1].chains[1].urls =
          <<TimedScripts[3].url, TimedScripts[2].url, TimedScripts[1].url>>

\* the bytes the content-length header of a url stands for
SizeOfUrl(url) ==
    IF ContentLength(url) = None THEN 0 ELSE ContentLength(url)[1]

RECURSIVE SumSizes(_)
SumSizes(urls) ==
    IF urls = <<>> THEN 0 ELSE SizeOfUrl(Head(urls)) + SumSizes(Tail(urls))

\* the returned chains with at least two urls
ChainsOfTwoOrMore == SelectSeq(output[1].chains, LAMBDA c : Len(c.urls) >= 2)

\* C18: every returned chain with at least 2 urls yields exactly one merge
\* candidate with the urls of that chain, whose combined size is the sum of
\* sizeBytes over all nodes of the chain, a node without size header
\* counting 0; there are as many merge candidates as such chains.
MergeCandidatePerChain ==
    output # None =>
        /\ Len(output[1].mergeCandidates) = Len(ChainsOfTwoOrMore)
        /\ \A i \in DOMAIN output[1].mergeCandidates :
              /\ output[1].mergeCandidates[i].urls = ChainsOfTwoOrMore[i].urls
              /\ output[1].mergeCandidates[i].combinedSizeKB =
                    [num |-> SumSizes(ChainsOfTwoOrMore[i].urls),
                     den |-> 1024]

\* a chain of three scripts, the last one served without content-length:
\* one merge candidate of 2048 + 1024 + 0 bytes
MergeOfThreeSeen ==
    /\ output # None
    /\ Len(output[1].chains) = 1
    /\ output[1].chains[1].urls = <<"a", "b", "c">>
    /\ Len(output[1].mergeCandidates) = 1
    /\ output[1].mergeCandidates[1].combinedSizeKB.num = 3072

(***************************************************************************)
(* Priority of a bundle.  unusedPercent is 100 - usagePercent, kept like   *)
(* usagePercent as the exact fraction num/den.                             *)
(***************************************************************************)
\* unusedPercent > n
PercentAbove(unusedPercent, n) == unusedPercent.num > n * unusedPercent.den

\* the first test with >= in place of >
IsCriticalInclusive(unusedBytes, unusedPercent) ==
    unusedBytes >= 100 * 1024 \/ unusedPercent.num >= 50 * unusedPercent.den

\* unusedBytes > 100 * 1024 || unusedPercent > 50
IsCritical(unusedBytes, unusedPercent) ==
    unusedBytes > 100 * 1024 \/ PercentAbove(unusedPercent, 50)

\* the second test on the bytes alone
IsHighByBytesOnly(unusedBytes, unusedPercent) == unusedBytes > 50 * 1024

\* unusedBytes > 50 * 1024 || unusedPercent > 30
IsHigh(unusedBytes, unusedPercent) ==
    unusedBytes > 50 * 1024 \/ PercentAbove(unusedPercent, 30)

\* unusedBytes > 20 * 1024 || unusedPercent > 20
IsMedium(unusedBytes, unusedPercent) ==
    unusedBytes > 20 * 1024 \/ PercentAbove(unusedPercent, 20)

determinePriority(unusedBytes, unusedPercent) ==
    IF IsCritical(unusedBytes, unusedPercent) THEN "critical"
    ELSE IF IsHigh(unusedBytes, unusedPercent) THEN "high"
    ELSE IF IsMedium(unusedBytes, unusedPercent) THEN "medium"
    ELSE "low"

(***************************************************************************)
(* The priorities suggest_code_splits gives the bundles of a list: each    *)
(* bundle is handed to determinePriority with its own unusedBytes and      *)
(* unusedPercent.                                                          *)
(***************************************************************************)
\* most bundles of a list
MaxBundles == 2

\* unused bytes at and next to 20KB, 50KB and 100KB
UnusedByteValues == {0, 20480, 20481, 51200, 51201, 102400, 102401}
\* unused percentages 0, 20, 20.5, 30, 30.5, 50 and 50.5
UnusedPercentValues ==
    {[num |-> 0, den |-> 1], [num |-> 20, den |-> 1], [num |-> 41, den |-> 2],
     [num |-> 30, den |-> 1], [num |-> 61, den |-> 2], [num |-> 50, den |-> 1],
     [num |-> 101, den |-> 2]}

Bundles == [unusedBytes : UnusedByteValues, unusedPercent : UnusedPercentValues]

InitPriority ==
    /\ InitSession
    /\ input \in {Some(l) : l \in SeqsUpTo(Bundles, MaxBundles)}
    /\ output = None

AssignPriorities ==
    /\ output = None
    /\ output' = Some([k \in DOMAIN input[1] |->
                        determinePriority(input[1][k].unusedBytes,
                                          input[1][k].unusedPercent)])
    /\ UNCHANGED <<sessionVars, input>>

NextPriority == AssignPriorities

SpecPriority == InitPriority /\ [][NextPriority]_vars

(***************************************************************************)
(* Properties of the priorities.                                           *)
(***************************************************************************)
\* the ladder of the specification, percentages compared as fractions
Ladder(bytes, pct) ==
    IF bytes > 102400 \/ pct.num > 50 * pct.den THEN "critical"
    ELSE IF bytes > 51200 \/ pct.num > 30 * pct.den THEN "high"
    ELSE IF bytes > 20480 \/ pct.num > 20 * pct.den THEN "medium"
    ELSE "low"

\* C19: the priority of a bundle is critical if its unusedBytes exceed
\* 100*1024 or its unusedPercent exceeds 50, else high if they exceed 50*1024
\* or 30, else medium if they exceed 20*1024 or 20, else low, whatever the
\* other bundles of the list are.
PriorityFollowsLadder ==
    output # None =>
        \A k \in DOMAIN input[1] :
            output[1][k] = Ladder(input[1][k].unusedBytes,
                                  input[1][k].unusedPercent)

\* a bundle that is medium by its percentage alone, listed after a critical
\* one
MediumAfterCriticalSeen ==
    /\ output # None
    /\ Len(input[1]) = 2
    /\ output[1][1] = "critical"
    /\ input[1][2].unusedBytes = 20480
    /\ input[1][2].unusedPercent = [num |-> 30, den |-> 1]
    /\ output[1][2] = "medium"

\* the bundle with exactly 100KB unused and exactly 50% unused
AtCriticalBoundary(bundle) ==
    /\ bundle.unusedBytes = 100 * 1024
    /\ bundle.unusedPercent = [num |-> 50, den |-> 1]

\* C20 as stated: a bundle with exactly 100*1024 unused bytes and exactly 50%
\* unused is given priority critical.
BoundaryBundleCritical ==
    output # None =>
        \A k \in DOMAIN input[1] :
            AtCriticalBoundary(input[1][k]) => output[1][k] = "critical"

\* C20, amended: a bundle with exactly 100*1024 unused bytes and exactly 50%
\* unused exceeds neither critical threshold and is given priority high.
BoundaryBundleHigh ==
    output # None =>
        \A k \in DOMAIN input[1] :
            AtCriticalBoundary(input[1][k]) => output[1][k] = "high"

\* the boundary bundle has been given its priority
BoundaryBundleSeen ==
    /\ output # None
    /\ Len(input[1]) = 1
    /\ AtCriticalBoundary(input[1][1])
    /\ output[1][1] # "low"

(***************************************************************************)
(* Heavy-dependency detection.  A URL is the sequence of its pieces: the   *)
(* separators "/", "." and "-" and the words between them; a word written  *)
(* next to another word forms one longer filename token with it.  A        *)
(* pattern is found in a URL when its pieces occur in it one after the     *)
(* other (String.prototype.includes); no word of the alphabet contains     *)
(* another, so this is the substring test.                                 *)
(***************************************************************************)
\* Object.keys(DEPENDENCY_ALTERNATIVES), in declaration order
DEPENDENCY_NAMES ==
    << <<"moment">>, <<"lodash">>, <<"underscore">>, <<"jquery">>,
       <<"axios">>, <<"chart", ".", "js">>, <<"react", "-", "icons">>,
       <<"core", "-", "js">>, <<"validator">>, <<"numeral">>,
       <<"highlight", ".", "js">>, <<"quill">>, <<"draft", "-", "js">>,
       <<"antd">>, <<"material", "-", "ui">> >>

\* the name of a dependency as the handler reports it
DepName(dep) ==
    IF Len(dep) = 1 THEN dep[1]
    ELSE IF dep = <<"chart", ".", "js">> THEN "chart.js"
    ELSE IF dep = <<"react", "-", "icons">> THEN "react-icons"
    ELSE IF dep = <<"core", "-", "js">> THEN "core-js"
    ELSE IF dep = <<"highlight", ".", "js">> THEN "highlight.js"
    ELSE IF dep = <<"draft", "-", "js">> THEN "draft-js"
    ELSE "material-ui"

\* url.toLowerCase(): the words written with capitals
ToLowerCase(url) ==
    [k \in DOMAIN url |-> IF url[k] = "Lodash" THEN "lodash" ELSE url[k]]

\* lowerUrl.includes(pattern)
Includes(url, pattern) ==
    \E k \in 0..(Len(url) - Len(pattern)) :
        \A j \in DOMAIN pattern : url[k + j] = pattern[j]

\* /dep/, /dep. , dep.js, dep.min.js, dep-
Patterns(dep) ==
    << <<"/">> \o dep \o <<"/">>,
       <<"/">> \o dep \o <<".">>,
       dep \o <<".", "js">>,
       dep \o <<".", "min", ".", "js">>,
       dep \o <<"-">> >>

\* one of the patterns of dep occurs in the lower-cased url
MatchesDep(lowerUrl, dep) ==
    \E k \in DOMAIN Patterns(dep) : Includes(lowerUrl, Patterns(dep)[k])

\* the first name of the table with a matching pattern, None for null
detectHeavyDependency(url) ==
    LET lowerUrl == ToLowerCase(url)
        hits == {d \in DOMAIN DEPENDENCY_NAMES :
                    MatchesDep(lowerUrl, DEPENDENCY_NAMES[d])}
    IN IF hits = {} THEN None
       ELSE Some(DepName(DEPENDENCY_NAMES[
                    CHOOSE d \in hits : \A e \in hits : d <= e]))

(***************************************************************************)
(* Detection on its own: one URL is looked up.                             *)
(***************************************************************************)
\* most pieces of a freely composed URL
MaxUrlPieces == 4

Separators == {"/", ".", "-"}
Words == {"lodash", "Lodash", "moment", "my", "thing", "js"}

\* the URLs of the tests and of the specification, after the host
LodashUrl == <<"/", "lodash", ".", "js">>
NodeModulesLodashUrl ==
    <<"/", "node_modules", "/", "lodash", "/", "lodash", ".", "js">>
MyLodashThingUrl == <<"/", "my", "-", "lodash", "thing", ".", "js">>

DependencyUrls ==
    SeqsUpTo(Separators \cup Words, MaxUrlPieces)
        \cup {LodashUrl, NodeModulesLodashUrl, MyLodashThingUrl}

InitDeps ==
    /\ InitSession
    /\ input \in {Some(u) : u \in DependencyUrls}
    /\ output = None

DetectDependency ==
    /\ output = None
    /\ output' = Some(detectHeavyDependency(input[1]))
    /\ UNCHANGED <<sessionVars, input>>

NextDeps == DetectDependency

SpecDeps == InitDeps /\ [][NextDeps]_vars

(***************************************************************************)
(* Properties of the detection.                                            *)
(***************************************************************************)
KnownWords == {"lodash", "moment"}

\* the url ends with the pieces of suffix
EndsWith(url, suffix) ==
    /\ Len(url) >= Len(suffix)
    /\ SubSeq(url, Len(url) - Len(suffix) + 1, Len(url)) = suffix

\* the known names in the url other than lodash
NoOtherName(url) == \A k \in DOMAIN url : url[k] # "moment"

\* the piece at k is a word written next to another word: part of a longer
\* filename token
Embedded(url, k) ==
    \/ k > 1 /\ url[k - 1] \notin Separators
    \/ k < Len(url) /\ url[k + 1] \notin Separators

\* a known name occurs in the url, and only inside longer filename tokens
OnlyEmbeddedNames(url) ==
    /\ \E k \in DOMAIN url : url[k] \in KnownWords
    /\ \A k \in DOMAIN url : url[k] \in KnownWords => Embedded(url, k)

\* C21: a URL ending in /lodash.js and a URL containing
\* /node_modules/lodash/lodash.js resolve to lodash, and a URL in which a
\* known dependency name occurs only inside a longer filename token, as in
\* /my-lodashthing.js, resolves to no dependency.
DependencyRespectsTokens ==
    output # None =>
        LET url == ToLowerCase(input[1])
        IN /\ (EndsWith(url, LodashUrl) /\ NoOtherName(url))
                  => output[1] = Some("lodash")
           /\ Includes(url, NodeModulesLodashUrl) => output[1] = Some("lodash")
           /\ OnlyEmbeddedNames(url) => output[1] = None

(***************************************************************************)
(* suggest_code_splits.  The handler reads the last coverage report of the *)
(* session; the url of an entry is here the sequence of its pieces, as     *)
(* detectHeavyDependency reads it.                                         *)
(***************************************************************************)
\* 100 - entry.usagePercent
UnusedPercent(entry) ==
    [num |-> 100 * entry.usagePercent.den - entry.usagePercent.num,
     den |-> entry.usagePercent.den]

\* the filter with > in place of >=
PassesFilterStrict(entry, minBundleSizeKB, minUnusedPercent) ==
    /\ entry.totalBytes > minBundleSizeKB * 1024
    /\ UnusedPercent(entry).num > minUnusedPercent * UnusedPercent(entry).den

\* sizeKB >= minBundleSizeKB && unusedPercent >= minUnusedPercent
PassesFilter(entry, minBundleSizeKB, minUnusedPercent) ==
    /\ entry.totalBytes >= minBundleSizeKB * 1024
    /\ UnusedPercent(entry).num >= minUnusedPercent * UnusedPercent(entry).den

Candidate(entry) ==
    [url |-> entry.url,
     priority |-> determinePriority(entry.unusedBytes, UnusedPercent(entry)),
     totalBytes |-> entry.totalBytes,
     usedBytes |-> entry.usedBytes,
     unusedBytes |-> entry.unusedBytes,
     usagePercent |-> entry.usagePercent,
     isExternal |-> entry.isExternal,
     detectedDependency |-> detectHeavyDependency(entry.url)]

RECURSIVE FilterCandidates(_, _, _)
\* the loop over jsCoverage: candidates in report order
FilterCandidates(jsCoverage, minBundleSizeKB, minUnusedPercent) ==
    IF jsCoverage = <<>> THEN <<>>
    ELSE (IF PassesFilter(Head(jsCoverage), minBundleSizeKB, minUnusedPercent)
          THEN <<Candidate(Head(jsCoverage))>> ELSE <<>>)
         \o FilterCandidates(Tail(jsCoverage), minBundleSizeKB,
                             minUnusedPercent)

RECURSIVE HeavyDeps(_)
\* heavyDeps: the detected names in the order they were first set, each with
\* the entry set last
HeavyDeps(candidates) ==
    IF candidates = <<>> THEN <<>>
    ELSE LET last == candidates[Len(candidates)]
             before == HeavyDeps(SubSeq(candidates, 1, Len(candidates) - 1))
         IN IF last.detectedDependency = None THEN before
            ELSE IF \E k \in DOMAIN before :
                        before[k].dep = last.detectedDependency[1]
            THEN [k \in DOMAIN before |->
                    IF before[k].dep = last.detectedDependency[1]
                    THEN [dep |-> before[k].dep, url |-> last.url]
                    ELSE before[k]]
            ELSE before \o <<[dep |-> last.detectedDependency[1],
                             url |-> last.url]>>

\* priorityOrder
PriorityOrder(priority) ==
    IF priority = "critical" THEN 0
    ELSE IF priority = "high" THEN 1
    ELSE IF priority = "medium" THEN 2
    ELSE 3

\* the comparator on the unused bytes alone
ByUnusedBytesOnly(a, b) == b.unusedBytes - a.unusedBytes

\* the comparator of candidates.sort
ByPriorityThenUnused(a, b) ==
    IF PriorityOrder(a.priority) - PriorityOrder(b.priority) # 0
    THEN PriorityOrder(a.priority) - PriorityOrder(b.priority)
    ELSE b.unusedBytes - a.unusedBytes

RECURSIVE InsertCandidate(_, _)
InsertCandidate(c, sorted) ==
    IF sorted = <<>> THEN <<c>>
    ELSE IF ByPriorityThenUnused(Head(sorted), c) <= 0
         THEN <<Head(sorted)>> \o InsertCandidate(c, Tail(sorted))
         ELSE <<c>> \o sorted

RECURSIVE SortCandidates(_)
\* candidates.sort(...), stable
SortCandidates(list) ==
    IF list = <<>> THEN <<>>
    ELSE InsertCandidate(list[Len(list)],
                         SortCandidates(SubSeq(list, 1, Len(list) - 1)))

\* the lazy-load test on the usage alone
IsUnderUsed(c) == c.usagePercent.num < 50 * c.usagePercent.den

\* c.usagePercent < 50 && !c.isExternal
IsLazyLoadCandidate(c) ==
    c.usagePercent.num < 50 * c.usagePercent.den /\ ~c.isExternal

RECURSIVE LazyLoadCandidates(_)
LazyLoadCandidates(candidates) ==
    IF candidates = <<>> THEN <<>>
    ELSE (IF IsLazyLoadCandidate(Head(candidates))
          THEN <<Head(candidates)>> ELSE <<>>)
         \o LazyLoadCandidates(Tail(candidates))

\* the report has no value
ReportOrJsMissing(report) ==
    report = None \/ report[1].jsCoverage = <<>>

\* !coverageReport
NoCoverageReport(report) == report = None

NoSuggestions(outcome) ==
    [outcome |-> outcome, candidates |-> <<>>, heavyDeps |-> <<>>,
     lazyLoadCandidates |-> <<>>, lazyLoadShown |-> <<>>]

\* what the handler works out and prints, from the last coverage report
suggestCodeSplits(report, minBundleSizeKB, minUnusedPercent) ==
    IF NoCoverageReport(report) THEN NoSuggestions("noCoverageData")
    ELSE IF Len(report[1].jsCoverage) = 0 THEN NoSuggestions("noJSCoverage")
    ELSE LET filtered == FilterCandidates(report[1].jsCoverage,
                                          minBundleSizeKB, minUnusedPercent)
             candidates == SortCandidates(filtered)
             lazy == LazyLoadCandidates(candidates)
         IN IF candidates = <<>>
            THEN NoSuggestions("noOpportunities")
            ELSE [outcome |-> "suggestions",
                  candidates |-> candidates,
                  heavyDeps |-> HeavyDeps(filtered),
                  lazyLoadCandidates |-> lazy,
                  lazyLoadShown |-> SubSeq(lazy, 1, Min(5, Len(lazy)))]

(***************************************************************************)
(* suggest_code_splits on its own: the session holds a last coverage       *)
(* report, or none, and the handler runs once.                             *)
(***************************************************************************)
\* most JS entries of the last coverage report
MaxReportEntries == 3

AppUrl == <<"/", "app", ".", "js">>

\* total bytes: 10KB, 50KB and 200KB; used: 20%, 50% and 80% of them
BundleSizes == {10240, 51200, 204800}
UsedShares == {20, 50, 80}

ReportEntry(url, isExternal, totalBytes, share) ==
    LET usedBytes == (totalBytes * share) \div 100
    IN [url |-> url,
        totalBytes |-> totalBytes,
        usedBytes |-> usedBytes,
        unusedBytes |-> totalBytes - usedBytes,
        usagePercent |-> UsagePercent(usedBytes, totalBytes),
        isExternal |-> isExternal]

\* a first-party bundle and the lodash bundle of a CDN
ReportEntries ==
    {ReportEntry(AppUrl, FALSE, t, u) : t \in BundleSizes, u \in UsedShares}
    \cup {ReportEntry(LodashUrl, TRUE, 204800, 20),
          ReportEntry(LodashUrl, TRUE, 51200, 50)}

CoverageReportOf(jsCoverage) ==
    [jsCoverage |-> jsCoverage,
     cssCoverage |-> <<>>,
     summary |-> [totalResources |-> Len(jsCoverage),
                  totalBytes |-> SumField(jsCoverage, "totalBytes"),
                  usedBytes |-> SumField(jsCoverage, "usedBytes"),
                  unusedBytes |-> SumField(jsCoverage, "unusedBytes"),
                  overallUsagePercent |->
                      UsagePercent(SumField(jsCoverage, "usedBytes"),
                                   SumField(jsCoverage, "totalBytes"))],
     jsPagination |-> None,
     cssPagination |-> None]

\* minBundleSizeKB (default 50) and minUnusedPercent (default 20)
SuggestParams ==
    {[minBundleSizeKB |-> 0, minUnusedPercent |-> 0],
     [minBundleSizeKB |-> 50, minUnusedPercent |-> 20],
     [minBundleSizeKB |-> 50, minUnusedPercent |-> 50]}

InitSuggest ==
    /\ running = FALSE
    /\ coverageOptions = [includeJS |-> TRUE, includeCSS |-> TRUE]
    /\ lastCoverageReport \in
          {None} \cup {Some(CoverageReportOf(js)) :
                          js \in SeqsUpTo(ReportEntries, MaxReportEntries)}
    /\ active = [t \in Types |-> FALSE]
    /\ calls = [i \in CallIds |-> NewCall]
    /\ invoked = 0
    /\ response = NoResponse
    /\ acceptedSinceStop = 0
    /\ input \in {Some(p) : p \in SuggestParams}
    /\ output = None

SuggestCodeSplitsOnce ==
    /\ output = None
    /\ output' = Some(suggestCodeSplits(lastCoverageReport,
                                        input[1].minBundleSizeKB,
                                        input[1].minUnusedPercent))
    /\ UNCHANGED <<sessionVars, input>>

NextSuggest == SuggestCodeSplitsOnce

SpecSuggest == InitSuggest /\ [][NextSuggest]_vars

(***************************************************************************)
(* Properties of the suggestions.                                          *)
(***************************************************************************)
\* the JS entries of the last coverage report
ReportJs == lastCoverageReport[1].jsCoverage

\* entry k of the report is at or above both minimums
Selected(k) ==
    /\ ReportJs[k].totalBytes >= input[1].minBundleSizeKB * 1024
    /\ 100 * ReportJs[k].usagePercent.den - ReportJs[k].usagePercent.num
          >= input[1].minUnusedPercent * ReportJs[k].usagePercent.den

Rank(priority) ==
    CASE priority = "critical" -> 1
      [] priority = "high" -> 2
      [] priority = "medium" -> 3
      [] priority = "low" -> 4

\* the candidate without the fields the handler adds to the entry
EntryOf(c) ==
    [url |-> c.url, totalBytes |-> c.totalBytes, usedBytes |-> c.usedBytes,
     unusedBytes |-> c.unusedBytes, usagePercent |-> c.usagePercent,
     isExternal |-> c.isExternal]

\* C22: the suggestion candidates are exactly the JS coverage entries with
\* totalBytes/1024 >= minBundleSizeKB and 100 - usagePercent >=
\* minUnusedPercent, both inclusive, ordered by priority rank critical, high,
\* medium, low and, within one priority, by unusedBytes largest first.
CandidatesSelectedAndRanked ==
    (output # None /\ lastCoverageReport # None) =>
        LET cands == output[1].candidates
            chosen == {k \in DOMAIN ReportJs : Selected(k)}
        IN /\ Len(cands) = Cardinality(chosen)
           /\ \A e \in {ReportJs[k] : k \in DOMAIN ReportJs} :
                 Cardinality({k \in chosen : ReportJs[k] = e})
                    = Cardinality({j \in DOMAIN cands : EntryOf(cands[j]) = e})
           /\ \A i, j \in DOMAIN cands :
                 i < j =>
                    \/ Rank(cands[i].priority) < Rank(cands[j].priority)
                    \/ /\ cands[i].priority = cands[j].priority
                       /\ cands[i].unusedBytes >= cands[j].unusedBytes

\* three entries at the default minimums: one of exactly 50KB with exactly
\* 20% unused is kept and ranked last, a 10KB one is left out, and the
\* candidate listed first in the report is ranked after a later one
BoundaryEntryRankedSeen ==
    /\ output # None /\ lastCoverageReport # None
    /\ input[1] = [minBundleSizeKB |-> 50, minUnusedPercent |-> 20]
    /\ Len(ReportJs) = 3
    /\ ReportJs[1].totalBytes = 51200 /\ ReportJs[1].unusedBytes = 10240
    /\ ReportJs[2].totalBytes = 10240
    /\ ReportJs[3].totalBytes = 204800
    /\ Len(output[1].candidates) = 2
    /\ output[1].candidates[1].priority = "critical"
    /\ output[1].candidates[2].priority = "low"
    /\ EntryOf(output[1].candidates[2]) = ReportJs[1]

\* C23: the lazy-load candidates are exactly the suggestion candidates with
\* usagePercent < 50 and isExternal = false, in candidate order; no
\* third-party entry and no entry with usagePercent >= 50 is proposed for
\* lazy loading.
LazyLoadFirstPartyUnderUsed ==
    output # None =>
        LET cands == output[1].candidates
            lazy == output[1].lazyLoadCandidates
        IN /\ lazy = SelectSeq(cands,
                        LAMBDA c : /\ c.usagePercent.num < 50 * c.usagePercent.den
                                   /\ c.isExternal = FALSE)
           /\ \A k \in DOMAIN output[1].lazyLoadShown :
                 /\ output[1].lazyLoadShown[k] = lazy[k]
                 /\ ~lazy[k].isExternal
                 /\ lazy[k].usagePercent.num < 50 * lazy[k].usagePercent.den

\* three candidates: a third-party one used 20%, a first-party one used
\* exactly 50% and a first-party one used 20%; only the last is proposed
OnlyFirstPartyLazySeen ==
    /\ output # None
    /\ Len(output[1].candidates) = 3
    /\ Len(output[1].lazyLoadCandidates) = 1
    /\ output[1].lazyLoadShown = output[1].lazyLoadCandidates
    /\ \E k \in 1..3 : /\ output[1].candidates[k].isExternal
                       /\ output[1].candidates[k].usagePercent.num
                             < 50 * output[1].candidates[k].usagePercent.den
    /\ \E k \in 1..3 : /\ ~output[1].candidates[k].isExternal
                       /\ output[1].candidates[k].usagePercent.num
                             = 50 * output[1].candidates[k].usagePercent.den

(***************************************************************************)
(* The two analysis tools in a session: coverage is running or not, a last *)
(* coverage report is held or not, and the tools are called any number of  *)
(* times.                                                                  *)
(***************************************************************************)
SessionReports ==
    {None, Some(CoverageReportOf(<<>>)),
     Some(CoverageReportOf(<<ReportEntry(AppUrl, FALSE, 204800, 20)>>)),
     Some(CoverageReportOf(<<ReportEntry(AppUrl, FALSE, 10240, 80),
                             ReportEntry(LodashUrl, TRUE, 204800, 20)>>))}

SessionRequests ==
    {<<>>, <<DocumentRequest>>,
     <<DocumentRequest, TimedScript("a", 0, 0)>>,
     <<TimedScript("a", 0, 50), TimedScript("b", 50, 110)>>}

InitTools ==
    /\ running \in BOOLEAN
    /\ coverageOptions \in [includeJS : {TRUE}, includeCSS : BOOLEAN]
    /\ lastCoverageReport \in SessionReports
    /\ active = [t \in Types |->
                    /\ running
                    /\ (t = "JS" \/ coverageOptions.includeCSS)]
    /\ calls = [i \in CallIds |-> NewCall]
    /\ invoked = 0
    /\ response = NoResponse
    /\ acceptedSinceStop = IF running THEN 1 ELSE 0
    /\ input = None
    /\ output = None

SuggestCodeSplitsTool(params) ==
    /\ output' = Some([tool |-> "suggest_code_splits",
                       outcome |-> suggestCodeSplits(
                                       lastCoverageReport,
                                       params.minBundleSizeKB,
                                       params.minUnusedPercent).outcome])
    /\ input' = Some(params)
    /\ UNCHANGED sessionVars

AnalyzeBundleChainsTool(requests, minChainDepth, minChainTimeMs) ==
    /\ output' = Some([tool |-> "analyze_bundle_chains",
                       outcome |-> analyzeBundleChains(
                                       requests, minChainDepth,
                                       minChainTimeMs).outcome])
    /\ input' = Some([requests |-> requests, minChainDepth |-> minChainDepth,
                      minChainTimeMs |-> minChainTimeMs])
    /\ UNCHANGED sessionVars

NextTools ==
    \/ \E params \in SuggestParams : SuggestCodeSplitsTool(params)
    \/ \E requests \in SessionRequests, d \in MinChainDepths,
          t \in MinChainTimes : AnalyzeBundleChainsTool(requests, d, t)

SpecTools == InitTools /\ [][NextTools]_vars

\* C24: suggest_code_splits reports 'No Coverage Data Available' exactly
\* when the session has no last coverage report, and whatever they report,
\* suggest_code_splits and analyze_bundle_chains leave the running flag, the
\* coverage options and the last coverage report as they were.
AnalysisToolsReadOnly ==
    [][/\ running' = running
       /\ coverageOptions' = coverageOptions
       /\ lastCoverageReport' = lastCoverageReport
       /\ output' # None
       /\ output'[1].tool = "suggest_code_splits" =>
             ((output'[1].outcome = "noCoverageData")
                 <=> (lastCoverageReport = None))]_vars

\* suggest_code_splits has run while coverage was running, on a report
\* without JS entries: it did not report missing coverage data
SuggestOnEmptyReportSeen ==
    /\ output # None
    /\ output[1].tool = "suggest_code_splits"
    /\ output[1].outcome = "noJSCoverage"
    /\ lastCoverageReport # None
    /\ running

(***************************************************************************)
(* Properties of chain growth.                                             *)
(***************************************************************************)
\* the place of script i of scripts in the end-time order: behind every
\* script that ends earlier and every script of equal end time that comes
\* earlier in the input
EndTimeRank(scripts, i) ==
    1 + Cardinality({j \in DOMAIN scripts :
                        \/ scripts[j].endTimeMs < scripts[i].endTimeMs
                        \/ /\ scripts[j].endTimeMs = scripts[i].endTimeMs
                           /\ j < i})

\* scripts in end-time order
EndTimeSorted(scripts) ==
    [r \in DOMAIN scripts |->
        scripts[CHOOSE i \in DOMAIN scripts : EndTimeRank(scripts, i) = r]]

\* the urls assigned when node j of grown chain i is about to be appended:
\* those of the chains grown before and of the nodes of chain i before j
AssignedBefore(grown, i, j) ==
    UNION {{grown[h][k].url : k \in DOMAIN grown[h]} : h \in 1..(i - 1)}
        \cup {grown[i][k].url : k \in 1..(j - 1)}

\* the places in sorted of the unassigned scripts that start within the gap
\* after node j - 1 of grown chain i ended
EligibleAfter(sorted, grown, i, j) ==
    LET prev == grown[i][j - 1]
        assigned == AssignedBefore(grown, i, j)
    IN {r \in DOMAIN sorted :
            /\ sorted[r].url \notin assigned
            /\ prev.endTimeMs <= sorted[r].startTimeMs
            /\ sorted[r].startTimeMs <= prev.endTimeMs + 50}

RECURSIVE RootNodes(_)
\* the nodes of a returned chain, walked from its root
RootNodes(node) ==
    <<node>> \o (IF node.children = <<>> THEN <<>>
                 ELSE RootNodes(node.children[1]))

\* C25: in every grown chain each node after the head is the first script
\* in end-time order that is unassigned when it is appended and starts in
\* [prev.endTimeMs, prev.endTimeMs + 50]; growth stops only when there is no
\* such script; every consecutive pair (x, y) of a returned chain has
\* x.endTimeMs <= y.startTimeMs <= x.endTimeMs + 50.
SuccessorIsFirstEligible ==
    output # None =>
        LET sorted == EndTimeSorted(TimedScripts)
            grown == output[1].grown
        IN /\ \A i \in DOMAIN grown :
                 /\ \A j \in 2..Len(grown[i]) :
                       LET eligible == EligibleAfter(sorted, grown, i, j)
                       IN /\ eligible # {}
                          /\ LET first == sorted[CHOOSE r \in eligible :
                                                \A q \in eligible : r <= q]
                             IN /\ grown[i][j].url = first.url
                                /\ grown[i][j].startTimeMs = first.startTimeMs
                                /\ grown[i][j].endTimeMs = first.endTimeMs
                 /\ EligibleAfter(sorted, grown, i, Len(grown[i]) + 1) = {}
           /\ \A c \in DOMAIN output[1].chains :
                 LET nodes == RootNodes(output[1].chains[c].root)
                 IN \A j \in 2..Len(nodes) :
                       /\ nodes[j - 1].endTimeMs <= nodes[j].startTimeMs
                       /\ nodes[j].startTimeMs <= nodes[j - 1].endTimeMs + 50

\* a returned chain of three in which the second node was picked among two
\* eligible scripts, the one ending first, given later in the input
EarliestOfTwoEligibleSeen ==
    /\ output # None
    /\ Len(output[1].chains) = 1
    /\ output[1].chains[1].depth = 3
    /\ Cardinality(EligibleAfter(EndTimeSorted(TimedScripts),
                                 output[1].grown, 1, 2)) = 2
    /\ output[1].grown[1][2].url = TimedScripts[3].url
    /\ output[1].grown[1][3].url = TimedScripts[2].url

\* grown chain number i was dropped: too few nodes or too little elapsed time
Rejected(i) ==
    \/ Len(output[1].grown[i]) < input[1].minChainDepth
    \/ Elapsed(output[1].grown[i]) < input[1].minChainTimeMs

\* C26: a script consumed by a grown chain that is rejected, for a node
\* count below minChainDepth or an elapsed time below minChainTimeMs, stays
\* assigned: its url is in no returned chain and in no chain grown later,
\* neither as head nor as successor.
RejectedScriptsStayAssigned ==
    output # None =>
        \A i \in DOMAIN output[1].grown :
            Rejected(i) =>
                \A k \in DOMAIN output[1].grown[i] :
                    LET url == output[1].grown[i][k].url
                    IN /\ \A c \in DOMAIN output[1].chains :
                             \A n \in DOMAIN output[1].chains[c].urls :
                                 output[1].chains[c].urls[n] # url
                       /\ \A h \in DOMAIN output[1].grown :
                             h > i => \A n \in DOMAIN output[1].grown[h] :
                                          output[1].grown[h][n].url # url

\* a chain of one zero-duration script was dropped, and a chain grown later
\* ends at the time that script starts: the script is within the gap of the
\* later chain and is not appended to it
DroppedScriptNotReusedSeen ==
    /\ output # None
    /\ Len(output[1].grown) >= 2
    /\ Len(output[1].grown[1]) = 1
    /\ Rejected(1)
    /\ output[1].grown[2][Len(output[1].grown[2])].endTimeMs
          = output[1].grown[1][1].startTimeMs
    /\ output[1].chains = <<>>

(***************************************************************************)
(* Chain detection on inputs with records that are not timed scripts.      *)
(***************************************************************************)
\* a request of another resource type whose response carries timing
TimedDocument ==
    [url |-> "doc", resourceType |-> "document", hasResponse |-> TRUE,
     hasTiming |-> TRUE, requestTimeMs |-> 0, receiveHeadersEnd |-> 50,
     contentLength |-> None]

\* a script request that got no response
ScriptWithoutResponse ==
    [url |-> "a", resourceType |-> "script", hasResponse |-> FALSE,
     hasTiming |-> FALSE, requestTimeMs |-> 0, receiveHeadersEnd |-> 0,
     contentLength |-> None]

SkippedRecords ==
    {DocumentRequest, TimedDocument, UntimedScript, ScriptWithoutResponse}

MixedRequests ==
    {TimedScript(u, span[1], span[2]) :
        u \in {"a", "c"}, span \in {<<0, 0>>, <<0, 50>>, <<50, 50>>}}
    \cup SkippedRecords

MixedInputs ==
    [requests : SeqsUpTo(MixedRequests, MaxRequests),
     minChainDepth : MinChainDepths,
     minChainTimeMs : MinChainTimes]

InitMixed ==
    /\ InitSession
    /\ input \in {Some(i) : i \in MixedInputs}
    /\ output = None

SpecMixed == InitMixed /\ [][NextChains]_vars

\* a script-type record with a response and timing data
IsTimedScript(request) ==
    /\ request.resourceType = "script"
    /\ request.hasResponse
    /\ request.hasTiming

\* C27: only script-type records with a response and timing data appear in
\* a chain; the other records are skipped: the chains returned are those
\* returned for the input with these records removed, so adding or removing
\* them changes nothing.
SkippedRecordsIgnored ==
    output # None =>
        LET requests == input[1].requests
            kept == SelectSeq(requests, IsTimedScript)
        IN /\ output[1].chains
                = detectBundleChains(kept, input[1].minChainDepth,
                                     input[1].minChainTimeMs).chains
           /\ \A c \in DOMAIN output[1].chains :
                 LET nodes == RootNodes(output[1].chains[c].root)
                 IN \A n \in DOMAIN nodes :
                       \E k \in DOMAIN kept :
                           /\ kept[k].url = nodes[n].url
                           /\ kept[k].requestTimeMs = nodes[n].startTimeMs
                           /\ kept[k].requestTimeMs + kept[k].receiveHeadersEnd
                                 = nodes[n].endTimeMs

\* a script without timing stands between two timed scripts that are
\* returned as a chain of two
UntimedScriptSkippedSeen ==
    /\ output # None
    /\ Len(input[1].requests) = 3
    /\ input[1].requests[2] = UntimedScript
    /\ Len(output[1].chains) = 1
    /\ output[1].chains[1].urls = <<"a", "c">>

(***************************************************************************)
(* Chain detection step by step: one iteration of the for loop or of the   *)
(* while loop per step.  output holds the locals of detectBundleChains.    *)
(***************************************************************************)
\* scripts of two urls, of zero duration at 0 or at 50 or lasting from 0
\* to 50: identical timings and repeated urls among them
GrowthRequests ==
    {TimedScript(u, span[1], span[2]) :
        u \in {"a", "b"}, span \in {<<0, 0>>, <<0, 50>>, <<50, 50>>}}

GrowthInputs ==
    [requests : SeqsUpTo(GrowthRequests, MaxRequests),
     minChainDepth : {2},
     minChainTimeMs : {0}]

\* the locals of detectBundleChains as its for loop is entered: the timed
\* scripts collected and sorted, no chain, no url used
LoopEntry(requests) ==
    [pc |-> "for",
     scripts |-> SortByEndTime(ScriptsWithTiming(requests)),
     k |-> 1,
     usedUrls |-> {},
     current |-> 0,
     chainNodes |-> <<>>,
     chains |-> <<>>,
     appended |-> 0]

InitGrowth ==
    /\ InitSession
    /\ input \in {Some(i) : i \in GrowthInputs}
    /\ output = Some(LoopEntry(input[1].requests))

\* if (usedUrls.has(script.url)) continue
SkipUsedHead ==
    /\ output[1].pc = "for"
    /\ output[1].k <= Len(output[1].scripts)
    /\ HeadAlreadyUsed(output[1].usedUrls, output[1].scripts[output[1].k])
    /\ output' = Some([output[1] EXCEPT !.k = @ + 1])
    /\ UNCHANGED <<sessionVars, input>>

\* chainNodes = [], currentScript = script
StartChain ==
    /\ output[1].pc = "for"
    /\ output[1].k <= Len(output[1].scripts)
    /\ ~HeadAlreadyUsed(output[1].usedUrls, output[1].scripts[output[1].k])
    /\ output' = Some([output[1] EXCEPT !.pc = "while",
                                        !.current = output[1].k,
                                        !.chainNodes = <<>>])
    /\ UNCHANGED <<sessionVars, input>>

\* the url of the appended node left out of usedUrls
UrlNotAdded(usedUrls, url) == usedUrls

\* usedUrls.add(currentScript.url)
AddUrl(usedUrls, url) == usedUrls \cup {url}

\* one iteration of the while loop that finds a next script
AppendAndContinue ==
    /\ output[1].pc = "while"
    /\ LET l == output[1]
           currentScript == l.scripts[l.current]
           used == AddUrl(l.usedUrls, currentScript.url)
           next == FindNextScript(l.scripts, used, currentScript)
       IN /\ next # 0
          /\ output' = Some([l EXCEPT
                                !.chainNodes = Append(@, ChainNode(currentScript)),
                                !.usedUrls = used,
                                !.appended = @ + 1,
                                !.current = next])
    /\ UNCHANGED <<sessionVars, input>>

\* the iteration of the while loop that finds no next script and breaks:
\* the chain is pushed if it is deep enough and long enough, and the for
\* loop goes on
AppendAndClose ==
    /\ output[1].pc = "while"
    /\ LET l == output[1]
           currentScript == l.scripts[l.current]
           used == AddUrl(l.usedUrls, currentScript.url)
           next == FindNextScript(l.scripts, used, currentScript)
           nodes == Append(l.chainNodes, ChainNode(currentScript))
       IN /\ next = 0
          /\ output' = Some([l EXCEPT
                                !.pc = "for",
                                !.chainNodes = nodes,
                                !.usedUrls = used,
                                !.appended = @ + 1,
                                !.chains = @ \o ChainsOf(nodes,
                                                    input[1].minChainDepth,
                                                    input[1].minChainTimeMs),
                                !.k = @ + 1])
    /\ UNCHANGED <<sessionVars, input>>

\* return chains
ReturnChains ==
    /\ output[1].pc = "for"
    /\ output[1].k > Len(output[1].scripts)
    /\ output' = Some([output[1] EXCEPT !.pc = "done"])
    /\ UNCHANGED <<sessionVars, input>>

NextGrowth ==
    \/ SkipUsedHead
    \/ StartChain
    \/ AppendAndContinue
    \/ AppendAndClose
    \/ ReturnChains

\* the function runs without an await: a step that can be taken is taken
SpecGrowth == InitGrowth /\ [][NextGrowth]_vars /\ WF_vars(NextGrowth)

\* C30: chain detection terminates on every input, zero-duration scripts,
\* identical timings and repeated urls included: every node appended to a
\* chain assigns a url that was not assigned before, so the number of nodes
\* appended over all chains never exceeds the number of distinct script
\* urls; the chains returned are those of detectBundleChains.
ChainDetectionTerminates ==
    /\ <>(output[1].pc = "done")
    /\ [](/\ output[1].appended
                  <= Cardinality({output[1].scripts[k].url :
                                     k \in DOMAIN output[1].scripts})
          /\ output[1].appended = Cardinality(output[1].usedUrls)
          /\ output[1].pc = "done" =>
                output[1].chains
                   = detectBundleChains(input[1].requests,
                                        input[1].minChainDepth,
                                        input[1].minChainTimeMs).chains)

\* detection returned for three scripts of which two are the same
\* zero-duration record, each within the gap of the other: two nodes
\* appended for two distinct urls
ZeroDurationTwinsSeen ==
    /\ output[1].pc = "done"
    /\ Len(output[1].scripts) = 3
    /\ input[1].requests[1] = input[1].requests[3]
    /\ input[1].requests[1].receiveHeadersEnd = 0
    /\ input[1].requests[2].url # input[1].requests[1].url
    /\ output[1].appended = 2

(***************************************************************************)
(* Properties of the session under failing and overlapping calls.          *)
(***************************************************************************)
\* the handlers suspended at an await
InFlight == {i \in CallIds : calls[i].pc \notin {"new", "done"}}

\* C28: after any sequence of coverage_start and coverage_stop calls, calls
\* in which a provider start or stop throws included, whenever no handler is
\* in flight and the running flag is false, neither JS nor CSS
\* instrumentation is active in the provider.
NoInstrumentationLeftActive ==
    (InFlight = {} /\ ~running) => \A t \in Types : ~active[t]

StopAwaits == {"awaitStopJS", "awaitStopCSS"}

\* C29: for any interleaving of the handlers at their awaits, at most one
\* coverage_stop is accepted per tracking session: a coverage_stop passes
\* the running check only while no other accepted coverage_stop is awaiting
\* the provider, and a coverage_stop that completes does not clear the flag
\* of a session whose coverage_start was invoked after it.
StopAcceptedOncePerSession ==
    [][\A i \in CallIds :
          /\ (calls[i].pc = "new" /\ calls'[i].pc \in StopAwaits)
                => \A j \in CallIds \ {i} : calls[j].pc \notin StopAwaits
          /\ (calls[i].pc \in StopAwaits /\ calls'[i].pc = "done")
                => \A j \in CallIds :
                      j > i => calls[j].pc # "awaitStart"]_vars

====
